---- MODULE Spec2Model ----
(***************************************************************************)
(* A model of src/src/preview-content-provider.ts: the preview sessions    *)
(* (MarkdownPreviewEnhancedView), the two process-wide caches              *)
(* (HTML_FILES_MAP, MARKDOWN_ENGINES_MAP), the text editors the sessions   *)
(* are bound to, and the promises in flight between them.                  *)
(*                                                                         *)
(* Every handler of the class is an operator from a state record to a      *)
(* state record (the synchronous code up to its first await); an action    *)
(* applies one handler, or resumes one promise, and commits the result.    *)
(* A document is a sequence of lines and a line a sequence of atoms: an    *)
(* atom is a character or a lexeme that no operation of the class splits.  *)
(***************************************************************************)
EXTENDS Integers, Sequences, FiniteSets, TLC

VARIABLES
  HTML_FILES_MAP,        \* path -> temp html file (NoFile: no entry)
  MARKDOWN_ENGINES_MAP,  \* path -> engine (0: no entry)
  engines,               \* the engines constructed so far, in order
  tempFiles,             \* path -> the number of temp files opened for it so far
  alive,                 \* editor -> not yet destroyed
  text,                  \* editor -> its buffer, a sequence of lines
  editor,                \* session -> this.editor (0: null)
  engine,                \* session -> this.engine (0: null)
  JSAndCssFiles,         \* session -> this.JSAndCssFiles
  disposables,           \* session -> this.disposables: the editors subscribed to
  destroyed,             \* session -> destroy() has run (this.element removed)
  rendered,              \* session -> a render result has reached its callback
  webviewURL,            \* session -> the file the webview shows (NoFile: loading.html)
  loading,               \* session -> the webview has a load in progress
  zoomLevel,             \* session -> this.zoomLevel
  editorScrollDelay,     \* session -> this.editorScrollDelay, a time in ms
  scrollTimeout,         \* session -> the timer this.scrollTimeout holds (NoTimer: none)
  timers,                \* the timers set and neither fired nor cleared, in order
  scrollTop,             \* editor -> the scroll top of its element, in pixels
  wrap,                  \* editor -> the screen rows a buffer line takes (soft wrap)
  now,                   \* Date.now(), in ms
  uids,                  \* the number of random ids drawn so far
  config,                \* the MarkdownPreviewEnhancedConfig shared by the sessions
  tasks,                 \* the promises in flight, in the order they were created
  posted,                \* the messages the last step posted to webviews
  errs,                  \* the errors the last step threw
  notices,               \* the notifications the last step raised
  calls,                 \* the dispatch handlers and outside functions it called
  last                   \* the render request the last step settled, if it settled one

vars == <<HTML_FILES_MAP, MARKDOWN_ENGINES_MAP, engines, tempFiles, alive, text,
          editor, engine, JSAndCssFiles, disposables, destroyed, rendered,
          webviewURL, loading, zoomLevel, editorScrollDelay, scrollTimeout,
          timers, scrollTop, wrap, now, uids, config, tasks, posted, errs, notices, calls, last>>

----------------------------------------------------------------------------
(* Bounds of the model *)

NSessions == 2
NEditors == 2
NPaths == 2
MaxTasks == 2

Sessions == 1..NSessions
Editors == 1..NEditors
Paths == 1..NPaths

(* editor.getPath(): editors beyond NPaths share the paths of the first ones *)
getPath(e) == ((e - 1) % NPaths) + 1

----------------------------------------------------------------------------
(* Values *)

NullDisposables == <<0>>
UndefinedFiles == <<"undefined">>
NoTask == [kind |-> "none"]
(* last, for a step the claims need not tell apart from the others *)
NoStep == [op |-> "step", s |-> 0, t |-> NoTask, before |-> <<>>, first |-> FALSE]
(* A temp file is named by the path it was opened for and its number among *)
(* the files opened for that path.                                         *)
NoFile == <<0, 0>>
NoTimer == [duration |-> -1]

RECURSIVE Flatten(_)
Flatten(lines) ==
  IF lines = <<>> THEN <<>> ELSE Head(lines) \o Flatten(Tail(lines))

RECURSIVE SelectAtoms(_, _)
SelectAtoms(atoms, wanted) ==
  IF atoms = <<>> THEN <<>>
  ELSE IF Head(atoms) \in wanted
       THEN <<Head(atoms)>> \o SelectAtoms(Tail(atoms), wanted)
       ELSE SelectAtoms(Tail(atoms), wanted)

(* The lexemes the render engine reads: an import of a script or style     *)
(* file, and the slide marker that makes a document a presentation.        *)
ImportAtoms == {"@a", "@b", "@x"}
SlideAtom == "slide"

(* engine.parseMD's result for a text: the files it imports, in document   *)
(* order, the presentation flag of its front matter, and its html (the     *)
(* text it was rendered from).                                             *)
parseMD(txt) ==
  [html |-> txt,
   JSAndCssFiles |-> SelectAtoms(Flatten(txt), ImportAtoms),
   isPresentationMode |-> \E i \in 1..Len(txt) :
                             \E j \in 1..Len(txt[i]) : txt[i][j] = SlideAtom]

(* A comparison that ignores the order of the elements *)
isArrayEqualAsSets(x, y) ==
  {x[i] : i \in 1..Len(x)} = {y[i] : i \in 1..Len(y)}

(* mume.utility.isArrayEqual as called at line 459: equal lengths and      *)
(* equal elements, position by position.                                   *)
isArrayEqual(x, y) ==
  /\ Len(x) = Len(y)
  /\ \A i \in 1..Len(x) : x[i] = y[i]

----------------------------------------------------------------------------
(* The state record the handlers work on *)

Cur ==
  [HTML_FILES_MAP |-> HTML_FILES_MAP, MARKDOWN_ENGINES_MAP |-> MARKDOWN_ENGINES_MAP,
   engines |-> engines, tempFiles |-> tempFiles, alive |-> alive, text |-> text,
   editor |-> editor, engine |-> engine, JSAndCssFiles |-> JSAndCssFiles,
   disposables |-> disposables, destroyed |-> destroyed, rendered |-> rendered,
   webviewURL |-> webviewURL, loading |-> loading, zoomLevel |-> zoomLevel,
   editorScrollDelay |-> editorScrollDelay, scrollTimeout |-> scrollTimeout,
   timers |-> timers, scrollTop |-> scrollTop, wrap |-> wrap,
   now |-> now, uids |-> uids, config |-> config, tasks |-> tasks,
   posted |-> <<>>, errs |-> <<>>, notices |-> <<>>, calls |-> <<>>]

(* The step ends in the state st a handler has returned, worked out once *)
Commit(st, step) ==
  \E r \in {st} :
    /\ HTML_FILES_MAP' = r.HTML_FILES_MAP
    /\ MARKDOWN_ENGINES_MAP' = r.MARKDOWN_ENGINES_MAP
    /\ engines' = r.engines
    /\ tempFiles' = r.tempFiles
    /\ alive' = r.alive
    /\ text' = r.text
    /\ editor' = r.editor
    /\ engine' = r.engine
    /\ JSAndCssFiles' = r.JSAndCssFiles
    /\ disposables' = r.disposables
    /\ destroyed' = r.destroyed
    /\ rendered' = r.rendered
    /\ webviewURL' = r.webviewURL
    /\ loading' = r.loading
    /\ zoomLevel' = r.zoomLevel
    /\ editorScrollDelay' = r.editorScrollDelay
    /\ scrollTimeout' = r.scrollTimeout
    /\ timers' = r.timers
    /\ scrollTop' = r.scrollTop
    /\ wrap' = r.wrap
    /\ now' = r.now
    /\ uids' = r.uids
    /\ config' = r.config
    /\ tasks' = r.tasks
    /\ posted' = r.posted
    /\ errs' = r.errs
    /\ notices' = r.notices
    /\ calls' = r.calls
    /\ last' = step

Throw(st, e) == [st EXCEPT !.errs = Append(@, e)]

Spawn(st, t) == [st EXCEPT !.tasks = Append(@, t)]

RemoveAt(seq, i) == SubSeq(seq, 1, i - 1) \o SubSeq(seq, i + 1, Len(seq))

(* postMessage (543-546): this.webview.send('_postMessage', data) *)
postMessage(st, s, data) ==
  [st EXCEPT !.posted = Append(@, [to |-> s] @@ data)]

----------------------------------------------------------------------------
(* The handlers of MarkdownPreviewEnhancedView, each up to its first await *)

(* loadPreview, lines 210-219: the call of generateHTMLTemplateForPreview  *)
(* with the text of the editor bound at that moment.                       *)
generateHTMLTemplateForPreview(st, s, editorFilePath, htmlFilePath, thenInit) ==
  IF st.editor[s] = 0 \/ st.engine[s] = 0
  THEN Throw(st, "TypeError: loadPreview reads null")
  ELSE Spawn(st, [kind |-> "generateHTML", s |-> s, engine |-> st.engine[s],
                  editorFilePath |-> editorFilePath,
                  htmlFilePath |-> htmlFilePath,
                  inputString |-> st.text[st.editor[s]],
                  thenInit |-> thenInit])

(* HTML_FILES_MAP lookup of loadPreview, line 201 *)
HasHtmlFile(map, path) == map[path] # NoFile

(* loadPreview, lines 195-207. thenInit: the call is the one initEvents    *)
(* awaits, and initEditorEvents follows its completion.                    *)
loadPreview(st, s, thenInit) ==
  IF st.editor[s] = 0
  THEN Throw(st, "TypeError: loadPreview reads null")
  ELSE LET editorFilePath == getPath(st.editor[s])
           st1 == postMessage(st, s, [command |-> "startParsingMarkdown"])
       IN IF HasHtmlFile(st1.HTML_FILES_MAP, editorFilePath)
          THEN generateHTMLTemplateForPreview(
                 st1, s, editorFilePath, st1.HTML_FILES_MAP[editorFilePath],
                 thenInit)
          ELSE Spawn(st1, [kind |-> "tempOpen", s |-> s,
                           editorFilePath |-> editorFilePath,
                           thenInit |-> thenInit])

(* A lookup that finds no engine *)
HasEngineNever(map, path) == FALSE

(* MARKDOWN_ENGINES_MAP lookup of initEvents, line 173 *)
HasEngine(map, path) == map[path] # 0

(* An initEvents that leaves this.JSAndCssFiles as it finds it *)
ResetFilesMissing(st, s) == st

(* initEvents, line 170: this.JSAndCssFiles = [] *)
ResetFiles(st, s) == [st EXCEPT !.JSAndCssFiles[s] = <<>>]

(* initEvents, lines 160-184 *)
initEvents(st, s) ==
  LET st1 == ResetFiles([st EXCEPT !.disposables[s] = <<>>], s)
  IN IF st1.editor[s] = 0
     THEN Throw(st1, "TypeError: initEvents reads null")
     ELSE LET path == getPath(st1.editor[s])
              id == Len(st1.engines) + 1
              st2 == IF HasEngine(st1.MARKDOWN_ENGINES_MAP, path)
                     THEN [st1 EXCEPT !.engine[s] = st1.MARKDOWN_ENGINES_MAP[path]]
                     ELSE [st1 EXCEPT
                             !.engines = Append(@, [filePath |-> path,
                                           isPreviewInPresentationMode |-> FALSE]),
                             !.engine[s] = id,
                             !.MARKDOWN_ENGINES_MAP[path] = id]
          IN loadPreview(st2, s, TRUE)

(* bindEditor, lines 139-158 *)
bindEditor(st, s, e) ==
  IF st.editor[s] = 0
  THEN Spawn([st EXCEPT !.editor[s] = e], [kind |-> "open", s |-> s])
  ELSE initEvents([st EXCEPT !.editor[s] = e], s)

(* initEditorEvents and initPreviewEvents, lines 343-405: one more set of  *)
(* subscriptions to the editor bound at that moment.                       *)
initEditorEvents(st, s) ==
  IF st.editor[s] = 0
  THEN Throw(st, "TypeError: initEditorEvents reads null")
  ELSE IF st.disposables[s] = NullDisposables
  THEN Throw(st, "TypeError: initEditorEvents reads null")
  ELSE [st EXCEPT !.disposables[s] = Append(@, st.editor[s])]

(* renderMarkdown, lines 443-457 *)
renderMarkdown(st, s, triggeredBySave) ==
  IF st.editor[s] = 0 THEN st
  ELSE IF st.engine[s] = 0
  THEN Throw(st, "TypeError: renderMarkdown reads null")
  ELSE IF st.engines[st.engine[s]].isPreviewInPresentationMode
  THEN loadPreview(st, s, FALSE)
  ELSE Spawn(postMessage(st, s, [command |-> "startParsingMarkdown"]),
             [kind |-> "parseMD", s |-> s, engine |-> st.engine[s],
              inputString |-> st.text[st.editor[s]], stale |-> FALSE])

(* A reload that keeps the stored dependency set as it was *)
StoreFilesNot(st, s, files) == st

(* Line 460: this.JSAndCssFiles = JSAndCssFiles *)
StoreFiles(st, s, files) == [st EXCEPT !.JSAndCssFiles[s] = files]

(* The callback of parseMD's promise, lines 458-473 *)
renderDecision(st, s, r) ==
  IF ~isArrayEqual(r.JSAndCssFiles, st.JSAndCssFiles[s]) \/ r.isPresentationMode
  THEN loadPreview(StoreFiles(st, s, r.JSAndCssFiles), s, FALSE)
  ELSE IF st.editor[s] = 0
  THEN Throw(st, "TypeError: renderMarkdown callback reads null")
  ELSE postMessage(st, s, [command |-> "updateHTML", html |-> r.html,
                           totalLineCount |-> Len(st.text[st.editor[s]]),
                           sourceUri |-> getPath(st.editor[s])])

(* webviewStopLoading, lines 233-237 *)
webviewStopLoading(st, s) ==
  IF st.engine[s] = 0
  THEN Throw(st, "TypeError: webviewStopLoading reads null")
  ELSE IF ~st.engines[st.engine[s]].isPreviewInPresentationMode
  THEN renderMarkdown(st, s, FALSE)
  ELSE st

(* refreshPreview, lines 559-565 *)
refreshPreview(st, s) ==
  IF st.engine[s] # 0 THEN loadPreview(st, s, FALSE) ELSE st

(* destroy, lines 794-805 *)
destroy(st, s) ==
  [st EXCEPT !.disposables[s] = NullDisposables,
             !.destroyed[s] = TRUE,
             !.editor[s] = 0]

(* The callbacks initEditorEvents registers, lines 352-372 *)
onDidDestroy(st, s) ==
  LET st1 == [st EXCEPT !.disposables[s] = NullDisposables, !.editor[s] = 0]
  IN IF ~st1.config.singlePreview /\ st1.config.closePreviewAutomatically
     THEN destroy(st1, s)
     ELSE st1

onDidStopChanging(st, s) ==
  IF st.config.liveUpdate THEN renderMarkdown(st, s, FALSE) ELSE st

onDidSave(st, s) == renderMarkdown(st, s, TRUE)

(* The callbacks an event of editor e runs: one per subscription, over the *)
(* sessions in order, as subscribed when the event is emitted.             *)
RECURSIVE Subscribers(_, _, _)
Subscribers(disp, e, s) ==
  IF s > NSessions THEN <<>>
  ELSE (IF disp[s] = NullDisposables THEN <<>>
        ELSE SelectSeq([i \in 1..Len(disp[s]) |-> IF disp[s][i] = e THEN s ELSE 0],
                       LAMBDA x : x # 0))
       \o Subscribers(disp, e, s + 1)

RECURSIVE EmitAll(_, _, _)
EmitAll(st, subs, event) ==
  IF subs = <<>> THEN st
  ELSE EmitAll(CASE event = "did-destroy" -> onDidDestroy(st, Head(subs))
                 [] event = "did-stop-changing" -> onDidStopChanging(st, Head(subs))
                 [] event = "did-save" -> onDidSave(st, Head(subs)),
               Tail(subs), event)

----------------------------------------------------------------------------
(* Strings and the text buffer. Rows, columns and string indices count     *)
(* from 0, as in the code.                                                 *)

Min(a, b) == IF a <= b THEN a ELSE b
Max(a, b) == IF a >= b THEN a ELSE b

(* String.prototype.indexOf(pat): the first index where pat occurs, or -1 *)
indexOf(str, pat) ==
  LET found == {k \in 0..(Len(str) - Len(pat)) :
                  SubSeq(str, k + 1, k + Len(pat)) = pat}
  IN IF found = {} THEN -1
     ELSE CHOOSE k \in found : \A j \in found : k <= j

(* String.prototype.lastIndexOf(pat) *)
lastIndexOf(str, pat) ==
  LET found == {k \in 0..(Len(str) - Len(pat)) :
                  SubSeq(str, k + 1, k + Len(pat)) = pat}
  IN IF found = {} THEN -1
     ELSE CHOOSE k \in found : \A j \in found : k >= j

(* String.prototype.slice(from, to): a negative index counts from the end *)
slice(str, from, to) ==
  LET n == Len(str)
      lo == IF from < 0 THEN Max(n + from, 0) ELSE Min(from, n)
      hi == IF to < 0 THEN Max(n + to, 0) ELSE Min(to, n)
  IN SubSeq(str, lo + 1, hi)

(* The replacement patterns String.prototype.replace expands in a          *)
(* replacement string, also when the pattern is a string: $$ is a dollar,  *)
(* $& the match, $` the text before it and $' the text after it.           *)
RECURSIVE Expand(_, _, _, _)
Expand(withStr, matched, pre, post) ==
  IF withStr = <<>> THEN <<>>
  ELSE IF Head(withStr) = "$" /\ Len(withStr) >= 2
          /\ withStr[2] \in {"$", "&", "`", "'"}
       THEN (CASE withStr[2] = "$" -> <<"$">>
               [] withStr[2] = "&" -> matched
               [] withStr[2] = "`" -> pre
               [] withStr[2] = "'" -> post)
            \o Expand(SubSeq(withStr, 3, Len(withStr)), matched, pre, post)
       ELSE <<Head(withStr)>> \o Expand(Tail(withStr), matched, pre, post)

(* String.prototype.replace(pat, withStr) with a string pattern: the first *)
(* occurrence only.                                                        *)
replace(str, pat, withStr) ==
  LET k == indexOf(str, pat)
      pre == SubSeq(str, 1, k)
      post == SubSeq(str, k + Len(pat) + 1, Len(str))
  IN IF k < 0 THEN str
     ELSE pre \o Expand(withStr, pat, pre, post) \o post

(* The checkbox lexemes of a task list line *)
Unchecked == "[ ]"
Checked == {"[x]", "[X]"}

(* The replace of line 330: the first checked box, [x] or [X], only *)
replaceChecked(line) ==
  LET found == {k \in 1..Len(line) : line[k] \in Checked}
  IN IF found = {} THEN line
     ELSE [line EXCEPT ![CHOOSE k \in found : \A j \in found : k <= j] = Unchecked]

(* TextBuffer.clipPosition: a row past the last one is the end of the      *)
(* buffer, a column past the end of the line is the end of the line.       *)
clipPosition(lines, pos) ==
  IF pos[1] < 0 THEN <<0, 0>>
  ELSE IF pos[1] >= Len(lines) THEN <<Len(lines) - 1, Len(lines[Len(lines)])>>
  ELSE <<pos[1], Max(0, Min(pos[2], Len(lines[pos[1] + 1])))>>

(* TextBuffer.setTextInRange([start, end], newText), newText given as the  *)
(* lines its newlines separate.                                            *)
setTextInRange(lines, start, end, newText) ==
  LET a == clipPosition(lines, start)
      b == clipPosition(lines, end)
      pre == SubSeq(lines[a[1] + 1], 1, a[2])
      post == SubSeq(lines[b[1] + 1], b[2] + 1, Len(lines[b[1] + 1]))
      n == Len(newText)
      mid == IF n = 1 THEN << pre \o newText[1] \o post >>
             ELSE << pre \o newText[1] >> \o SubSeq(newText, 2, n - 1)
                  \o << newText[n] \o post >>
  IN SubSeq(lines, 1, a[1]) \o mid \o SubSeq(lines, b[1] + 2, Len(lines))

(* TextEditor.insertText(str) with an empty selection at cursor *)
insertText(lines, cursor, str) ==
  setTextInRange(lines, cursor, cursor, <<str>>)

(* The positions a cursor can be at *)
Positions(lines) ==
  UNION {{<<r, c>> : c \in 0..Len(lines[r + 1])} : r \in 0..(Len(lines) - 1)}

(* path.basename: what follows the last separator *)
basename(filePath) == slice(filePath, lastIndexOf(filePath, <<"/">>) + 1, Len(filePath))

(* The description of an image, lines 718-721 and 752-755: the test is the *)
(* truth of lastIndexOf('.'), so -1 (no dot) takes the slice and 0 (a      *)
(* leading dot) does not.                                                  *)
description(imageFileName) ==
  IF lastIndexOf(imageFileName, <<".">>) # 0
  THEN slice(imageFileName, 0, lastIndexOf(imageFileName, <<".">>))
  ELSE imageFileName

(* Math.random().toString(36).substr(2, 9), lines 704 and 779: the n-th id *)
(* drawn, each one new.                                                    *)
UidAtoms == <<"u1", "u2", "u3", "u4">>
uid(n) == UidAtoms[n]

----------------------------------------------------------------------------
(* The handlers behind the messages of the webview *)

Call(st, kind, name, args) ==
  [st EXCEPT !.calls = Append(@, [kind |-> kind, name |-> name, args |-> args])]

(* A notification that is never shown *)
NotifyNothing(st, type) == st

(* atom.notifications.addInfo, addSuccess, addError (lines 573-790) *)
Notify(st, type) == [st EXCEPT !.notices = Append(@, [type |-> type])]

(* replaceHint, lines 737-748. r is what the call returns, or "threw" when *)
(* lines[bufferRow] is undefined and textLine.indexOf throws.              *)
replaceHint(st, s, bufferRow, hint, withStr) ==
  IF st.editor[s] = 0 THEN [st |-> st, r |-> "false"]
  ELSE LET e == st.editor[s]
           lines == st.text[e]
       IN IF bufferRow < 0 \/ bufferRow >= Len(lines)
          THEN [st |-> st, r |-> "threw"]
          ELSE LET textLine == lines[bufferRow + 1]
               IN IF indexOf(textLine, hint) >= 0
                  THEN [st |-> [st EXCEPT !.text[e] =
                                  setTextInRange(lines, <<bufferRow, 0>>,
                                                 <<bufferRow, Len(textLine)>>,
                                                 <<replace(textLine, hint, withStr)>>)],
                        r |-> "true"]
                  ELSE [st |-> st, r |-> "false"]

(* The rows setUploadedImageURL looks at on either side of bufferRow, line 760 *)
HintWindow == 20

(* The while loop of setUploadedImageURL, lines 761-765 *)
RECURSIVE ScanHint(_, _, _, _, _, _)
ScanHint(st, s, i, to, hint, withStr) ==
  IF i > to THEN [st |-> st, r |-> "false"]
  ELSE LET x == replaceHint(st, s, i, hint, withStr)
       IN IF x.r = "false" THEN ScanHint(st, s, i + 1, to, hint, withStr) ELSE x

(* The image reference of line 757 *)
ImageRef(imageFileName, url) ==
  <<"![">> \o description(imageFileName) \o <<"](">> \o url \o <<")">>

(* setUploadedImageURL, lines 750-767 *)
setUploadedImageURL(st, s, imageFileName, url, hint, bufferRow) ==
  LET withStr == ImageRef(imageFileName, url)
      x == replaceHint(st, s, bufferRow, hint, withStr)
  IN IF x.r = "false"
     THEN ScanHint(st, s, bufferRow - HintWindow, bufferRow + HintWindow,
                   hint, withStr)
     ELSE x

(* The placeholder of line 780 *)
Hint(imageFileName, id) ==
  <<"![Uploading ">> \o imageFileName \o <<"... (", id, ")]()">>

(* uploadImageFile, lines 774-785, with the cursor of the editor. The task *)
(* also remembers the text and the cursor the placeholder was inserted at. *)
uploadImageFile(st, s, imageFilePath, imageUploader, cursor) ==
  IF st.editor[s] = 0 THEN st
  ELSE LET e == st.editor[s]
           imageFileName == basename(imageFilePath)
           hint == Hint(imageFileName, uid(st.uids + 1))
           st1 == [st EXCEPT !.uids = @ + 1,
                             !.text[e] = insertText(@, cursor, hint)]
       IN Spawn(Call(st1, "outside", "uploadImage", <<imageFilePath, imageUploader>>),
                [kind |-> "uploadImage", s |-> s, imageFileName |-> imageFileName,
                 hint |-> hint, bufferRow |-> cursor[1],
                 orig |-> st.text[e], cursor |-> cursor])

(* pasteImageFile, lines 686-700 *)
pasteImageFile(st, s, imageFilePath) ==
  IF st.editor[s] = 0 THEN st
  ELSE Spawn(Call(st, "outside", "fs.mkdir", <<st.config.imageFolderPath>>),
             [kind |-> "stat", s |-> s, imageFilePath |-> imageFilePath,
              imageFolderPath |-> st.config.imageFolderPath])

(* The callback of fs.stat in pasteImageFile, lines 701-733 *)
pasteImageStat(st, s, t, outcome, cursor) ==
  LET name == basename(t.imageFilePath)
      lastDotOffset == lastIndexOf(name, <<".">>)
      id == <<"_", uid(st.uids + 1)>>
      imageFileName ==
        IF outcome # "exists" THEN name
        ELSE IF lastDotOffset > 0
        THEN slice(name, 0, lastDotOffset) \o id \o slice(name, lastDotOffset, Len(name))
        ELSE name \o id
      descr ==
        IF outcome # "exists" THEN description(name)
        ELSE IF lastDotOffset > 0 THEN slice(name, 0, lastDotOffset) ELSE name
      url0 == t.imageFolderPath \o <<"/">> \o imageFileName
      url == IF indexOf(url0, <<" ">>) >= 0 THEN <<"<">> \o url0 \o <<">">> ELSE url0
      st1 == Notify(Call(IF outcome = "exists" THEN [st EXCEPT !.uids = @ + 1] ELSE st,
                         "outside", "fs.createWriteStream", <<imageFileName>>),
                    "info")
  IN IF outcome \notin {"exists", "ENOENT"} THEN Notify(st, "error")
     ELSE IF st1.editor[s] = 0
     THEN Throw(st1, "TypeError: pasteImageFile callback reads null")
     ELSE [st1 EXCEPT !.text[st1.editor[s]] =
              insertText(@, cursor, <<"![">> \o descr \o <<"](">> \o url \o <<")">>)]

(* The handler of insertImageUrl, lines 267-271 *)
insertImageUrl(st, s, imageUrl, cursor) ==
  IF st.editor[s] = 0 THEN st
  ELSE [st EXCEPT !.text[st.editor[s]] =
          insertText(@, cursor,
                     <<"![enter image description here](">> \o imageUrl \o <<")">>)]

(* The handler of clickTaskListCheckbox, lines 321-333 *)
clickTaskListCheckbox(st, s, dataLine) ==
  IF st.editor[s] = 0 THEN st
  ELSE LET e == st.editor[s]
           lines == st.text[e]
       IN IF dataLine < 0 \/ dataLine >= Len(lines)
          THEN Throw(st, "TypeError: clickTaskListCheckbox reads undefined")
          ELSE LET line == lines[dataLine + 1]
                   toggled == IF indexOf(line, <<Unchecked>>) >= 0
                              THEN replace(line, <<Unchecked>>, <<"[x]">>)
                              ELSE replaceChecked(line)
               IN [st EXCEPT !.text[e] =
                     setTextInRange(lines, <<dataLine, 0>>, <<dataLine + 1, 0>>,
                                    <<toggled, <<>>>>)]

(* setZoomLevel, lines 682-684: zoomLevel || 1 *)
setZoomLevel(st, s, args) ==
  [st EXCEPT !.zoomLevel[s] = IF Len(args) < 2 \/ args[2] = 0 THEN 1 ELSE args[2]]

(* The numbers of scrollToBufferPosition (lines 483-517) and of the       *)
(* panes: the height of a line of the editor, and the height of the        *)
(* preview, which the editor beside it shares.                             *)
ScrollSuppression == 500
delay == 10
scrollDuration == 120
LineHeightInPixels == 20
OffsetHeight == 40

(* The view of an editor, as the editor computes it from its text, its     *)
(* soft wrap and its scroll top: rows outside the text are clipped.        *)
getLastBufferRow(st, e) == Len(st.text[e]) - 1

getLastScreenRow(st, e) == Len(st.text[e]) * st.wrap[e] - 1

screenRowForBufferRow(st, e, row) ==
  Min(Max(row, 0), getLastBufferRow(st, e)) * st.wrap[e]

(* A view in which every buffer line is one screen row *)
bufferRowForScreenRowUnwrapped(st, e, row) == row

bufferRowForScreenRow(st, e, row) ==
  Min(Max(row, 0), getLastScreenRow(st, e)) \div st.wrap[e]

getMaxScrollTop(st, e) ==
  Max(0, (getLastScreenRow(st, e) + 1) * LineHeightInPixels - OffsetHeight)

getFirstVisibleScreenRow(st, e) == st.scrollTop[e] \div LineHeightInPixels

getLastVisibleScreenRow(st, e) ==
  Min(getLastScreenRow(st, e),
      (st.scrollTop[e] + OffsetHeight) \div LineHeightInPixels)

(* The quotient n / d of two numbers, kept as the pair: d = 0 is the       *)
(* division that gives NaN or an infinity.                                 *)
Ratio(n, d) == [num |-> n, den |-> d]

(* syncPreview, lines 410-438 *)
syncPreview(st, s) ==
  IF st.editor[s] = 0 THEN st
  ELSE LET e == st.editor[s]
           firstVisibleScreenRow == getFirstVisibleScreenRow(st, e)
           lastVisibleScreenRow == getLastVisibleScreenRow(st, e)
       IN IF firstVisibleScreenRow = 0
          THEN postMessage(st, s, [command |-> "changeTextEditorSelection",
                                   line |-> 0, topRatio |-> Ratio(0, 1)])
          ELSE IF lastVisibleScreenRow = getLastScreenRow(st, e)
          THEN postMessage(st, s, [command |-> "changeTextEditorSelection",
                                   line |-> getLastBufferRow(st, e),
                                   topRatio |-> Ratio(1, 1)])
          ELSE postMessage(st, s,
                 [command |-> "changeTextEditorSelection",
                  line |-> bufferRowForScreenRow(
                             st, e,
                             (lastVisibleScreenRow + firstVisibleScreenRow) \div 2),
                  topRatio |-> Ratio(1, 2)])

(* A test that never suppresses *)
SuppressedNever(st, s) == FALSE

(* Date.now() < this.editorScrollDelay, lines 376 and 382 *)
Suppressed(st, s) == st.now < st.editorScrollDelay[s]

(* The callback of onDidChangeScrollTop, lines 374-378 *)
onDidChangeScrollTop(st, s) ==
  IF ~st.config.scrollSync THEN st
  ELSE IF Suppressed(st, s) THEN st
  ELSE syncPreview(st, s)

(* The callback of onDidChangeCursorPosition, lines 380-394 *)
onDidChangeCursorPosition(st, s, event) ==
  IF ~st.config.scrollSync THEN st
  ELSE IF Suppressed(st, s) THEN st
  ELSE IF st.editor[s] = 0
  THEN Throw(st, "TypeError: onDidChangeCursorPosition reads null")
  ELSE LET e == st.editor[s]
           firstVisibleScreenRow == getFirstVisibleScreenRow(st, e)
           lastVisibleScreenRow == getLastVisibleScreenRow(st, e)
       IN postMessage(st, s,
            [command |-> "changeTextEditorSelection",
             line |-> event.bufferRow,
             topRatio |-> Ratio(event.screenRow - firstVisibleScreenRow,
                                lastVisibleScreenRow - firstVisibleScreenRow)])

(* The callbacks an event of the view of an editor runs, one per           *)
(* subscription, and the command of line 347.                              *)
RECURSIVE EmitView(_, _, _)
EmitView(st, subs, event) ==
  IF subs = <<>> THEN st
  ELSE EmitView(CASE event.name = "did-change-scroll-top" ->
                       onDidChangeScrollTop(st, Head(subs))
                  [] event.name = "did-change-cursor-position" ->
                       onDidChangeCursorPosition(st, Head(subs), event)
                  [] event.name = "sync-preview" -> syncPreview(st, Head(subs)),
                Tail(subs), event)

(* editorElement.setScrollTop(num / den), lines 498 and 510: the editor    *)
(* keeps the value within its scrollable range, on a whole pixel, and      *)
(* emits did-change-scroll-top, before it returns, when the value changed. *)
setScrollTop(st, e, num, den) ==
  LET rounded == (2 * num + den) \div (2 * den)
      top == Max(0, Min(getMaxScrollTop(st, e), rounded))
  IN IF top = st.scrollTop[e] THEN st
     ELSE EmitView([st EXCEPT !.scrollTop[e] = top],
                   Subscribers(st.disposables, e, 1),
                   [name |-> "did-change-scroll-top"])

(* A clearTimeout that clears nothing *)
clearTimeoutNothing(st, h) == st

(* clearTimeout(this.scrollTimeout), line 486: a timer that has fired is   *)
(* no longer there to clear.                                               *)
clearTimeout(st, h) ==
  LET found == {i \in 1..Len(st.timers) : st.timers[i] = h}
  IN IF found = {} THEN st
     ELSE [st EXCEPT !.timers =
             RemoveAt(@, CHOOSE i \in found : \A j \in found : i <= j)]

(* A helper whose timers have ever more time left *)
helperLonger(st, s, e, duration, top) ==
  LET t == [s |-> s, e |-> e, duration |-> duration + 2 * delay,
            due |-> st.now + delay, scrollTop |-> top]
  IN [st EXCEPT !.timers = Append(@, t), !.scrollTimeout[s] = t]

(* helper, lines 494-495 and 514: this.scrollTimeout = setTimeout(.., delay) *)
helper(st, s, e, duration, top) ==
  LET t == [s |-> s, e |-> e, duration |-> duration, due |-> st.now + delay,
            scrollTop |-> top]
  IN [st EXCEPT !.timers = Append(@, t), !.scrollTimeout[s] = t]

(* A deadline that is left where it is *)
extendDeadlineNot(st, s) == st

(* this.editorScrollDelay = Date.now() + 500, lines 483, 497 and 507 *)
extendDeadline(st, s) ==
  [st EXCEPT !.editorScrollDelay[s] = st.now + ScrollSuppression]

(* scrollToBufferPosition, lines 480-518 *)
scrollToBufferPosition(st, s, row) ==
  IF st.editor[s] = 0 THEN st
  ELSE IF row < 0 THEN st
  ELSE LET e == st.editor[s]
           st1 == extendDeadline(st, s)
           st2 == IF st1.scrollTimeout[s] # NoTimer
                  THEN clearTimeout(st1, st1.scrollTimeout[s])
                  ELSE st1
           screenRow == screenRowForBufferRow(st2, e, row)
       IN helper(st2, s, e, scrollDuration,
                 screenRow * LineHeightInPixels - OffsetHeight \div 2)

(* The callback of the timer, lines 496-513. s = getScrollTop() + perTick  *)
(* is the quotient sNum / t.duration. The numbers of the code are doubles: *)
(* where difference / duration is not a whole number it is rounded, and    *)
(* exact tells whether s has come out as the quotient exactly, which the   *)
(* test s == scrollTop of line 512 depends on (the pixel the editor        *)
(* scrolls to does not).                                                   *)
scrollStep(st, t, exact) ==
  LET st1 == extendDeadline(st, t.s)
      difference == t.scrollTop - st.scrollTop[t.e]
      sNum == st.scrollTop[t.e] * t.duration + difference * delay
  IN IF t.duration <= 0
     THEN setScrollTop(st1, t.e, t.scrollTop, 1)
     ELSE IF /\ sNum = t.scrollTop * t.duration
             /\ (exact \/ difference % t.duration = 0)
     THEN setScrollTop(st1, t.e, sNum, t.duration)
     ELSE helper(setScrollTop(st1, t.e, sNum, t.duration), t.s, t.e,
                 t.duration - delay, t.scrollTop)

(* A method of the engine that returns a promise: openInBrowser and the    *)
(* exports (lines 567-652), which announce themselves first, and the code  *)
(* chunk runners (lines 658-672), which return when there is no engine.    *)
ExportMethods ==
  {"htmlExport", "phantomjsExport", "princeExport", "eBookExport",
   "pandocExport", "markdownExport"}

engineCall(st, s, method, arg) ==
  LET st1 == IF method \in ExportMethods THEN Notify(st, "info") ELSE st
  IN IF st.engine[s] = 0
     THEN IF method \in {"runCodeChunk", "runAllCodeChunks"} THEN st
          ELSE Throw(st1, "TypeError: engine is null")
     ELSE Spawn(st1, [kind |-> "engineCall", s |-> s, method |-> method,
                      arg |-> arg])

(* cacheCodeChunkResult, lines 654-656 *)
cacheCodeChunkResult(st, s, id, result) ==
  IF st.engine[s] = 0 THEN Throw(st, "TypeError: engine is null")
  ELSE Call(st, "outside", "engine.cacheCodeChunkResult", <<id, result>>)

(* The handler of clickTagA, lines 308-320. An href is a sequence of       *)
(* lexemes: the protocol, names, an extension, an anchor.                  *)
OfficeExtensions == {".pdf", ".xls", ".xlsx", ".doc", ".ppt", ".docx", ".pptx"}

decodeURIComponent(href) ==
  [k \in 1..Len(href) |-> IF href[k] = "%20" THEN " " ELSE href[k]]

extname(href) ==
  IF href # <<>> /\ href[Len(href)] \in OfficeExtensions \cup {".md"}
  THEN href[Len(href)] ELSE ""

(* The replace of line 314, which removes the anchor and the parameters:   *)
(* the text up to the first # or ? that something follows, without the     *)
(* blanks before it.                                                       *)
removeAnchor(href) ==
  LET marks == {k \in 1..(Len(href) - 1) : href[k] \in {"#", "?"}}
      blanks(k) == {i \in 1..k : \A j \in i..(k - 1) : href[j] = " "}
      starts == UNION {blanks(k) : k \in marks}
  IN IF marks = {} THEN href
     ELSE SubSeq(href, 1, (CHOOSE i \in starts : \A j \in starts : i <= j) - 1)

clickTagA(st, href0) ==
  LET href == decodeURIComponent(href0)
  IN IF extname(href) \in OfficeExtensions
     THEN Call(st, "outside", "openFile", <<href>>)
     ELSE IF href # <<>> /\ href[1] = "file://"
     THEN Call(st, "outside", "atom.workspace.open",
               <<Tail(decodeURIComponent(removeAnchor(href)))>>)
     ELSE Call(st, "outside", "openFile", <<href>>)

(* MESSAGE_DISPATCH_EVENTS, lines 252-337: the names it has of its own *)
RegisteredCommands ==
  {"webviewFinishLoading", "refreshPreview", "revealLine", "insertImageUrl",
   "pasteImageFile", "uploadImageFile", "openInBrowser", "htmlExport",
   "phantomjsExport", "princeExport", "eBookExport", "pandocExport",
   "markdownExport", "cacheCodeChunkResult", "runCodeChunk", "runAllCodeChunks",
   "clickTagA", "clickTaskListCheckbox", "setZoomLevel"}

(* The names the object inherits from Object.prototype: functions, and     *)
(* __proto__, which is an object without apply.                            *)
InheritedFunctions == {"toString", "constructor"}
InheritedNames == InheritedFunctions \cup {"__proto__"}

(* command in MESSAGE_DISPATCH_EVENTS, line 247 *)
HasCommand(command) == command \in RegisteredCommands \cup InheritedNames

(* A table whose every name holds the first handler *)
HandlerOfFirst(command) == "webviewFinishLoading"

(* MESSAGE_DISPATCH_EVENTS[command], line 248, for a name of its own: the  *)
(* function written under that name in the table.                          *)
HandlerOf(command) == command

(* An argument of the envelope, or the default of the parameter *)
Arg(args, k, default) == IF Len(args) >= k THEN args[k] ELSE default

(* The body of a handler, lines 253-336 *)
Handle(st, s, handler, args, cursor) ==
  CASE handler = "webviewFinishLoading" -> st
    [] handler = "refreshPreview" -> refreshPreview(st, s)
    [] handler = "revealLine" -> scrollToBufferPosition(st, s, args[2])
    [] handler = "insertImageUrl" -> insertImageUrl(st, s, args[2], cursor)
    [] handler = "pasteImageFile" -> pasteImageFile(st, s, args[2])
    [] handler = "uploadImageFile" ->
         uploadImageFile(st, s, args[2], Arg(args, 3, "imgur"), cursor)
    [] handler = "openInBrowser" -> engineCall(st, s, "openInBrowser", "")
    [] handler = "htmlExport" -> engineCall(st, s, "htmlExport", args[2])
    [] handler = "phantomjsExport" ->
         engineCall(st, s, "phantomjsExport", Arg(args, 2, "pdf"))
    [] handler = "princeExport" -> engineCall(st, s, "princeExport", "")
    [] handler = "eBookExport" -> engineCall(st, s, "eBookExport", args[2])
    [] handler = "pandocExport" -> engineCall(st, s, "pandocExport", "")
    [] handler = "markdownExport" -> engineCall(st, s, "markdownExport", "")
    [] handler = "cacheCodeChunkResult" ->
         cacheCodeChunkResult(st, s, args[2], args[3])
    [] handler = "runCodeChunk" -> engineCall(st, s, "runCodeChunk", args[2])
    [] handler = "runAllCodeChunks" -> engineCall(st, s, "runAllCodeChunks", "")
    [] handler = "clickTagA" -> clickTagA(st, args[2])
    [] handler = "clickTaskListCheckbox" -> clickTaskListCheckbox(st, s, args[2])
    [] handler = "setZoomLevel" -> setZoomLevel(st, s, args)

(* webviewReceiveMessage, lines 243-250 *)
webviewReceiveMessage(st, s, command, args, cursor) ==
  IF ~HasCommand(command) THEN st
  ELSE IF command \in InheritedFunctions
  THEN Call(st, "outside", command, args)
  ELSE IF command \notin RegisteredCommands
  THEN Throw(st, "TypeError: apply is not a function")
  ELSE Handle(Call(st, "handler", HandlerOf(command), args), s,
              HandlerOf(command), args, cursor)

----------------------------------------------------------------------------
(* The specification of one session: binding, loading, rendering, closing. *)
(* The other sessions and the other editors have been closed before.       *)

(* The fields the constructor and the field initialisers set (lines 48-51) *)
Constructed ==
  /\ zoomLevel = [s \in Sessions |-> 1]
  /\ now = 0
  /\ editorScrollDelay = [s \in Sessions |-> now]
  /\ scrollTimeout = [s \in Sessions |-> NoTimer]
  /\ uids = 0

(* The editors show the top of their texts, unwrapped, and no timer is set *)
AtTop ==
  /\ timers = <<>>
  /\ scrollTop = [e \in Editors |-> 0]
  /\ wrap = [e \in Editors |-> 1]

(* No step has been taken yet *)
Quiet ==
  /\ posted = <<>>
  /\ errs = <<>>
  /\ notices = <<>>
  /\ calls = <<>>

(* The texts the editors of the session specification move between *)
SessionDocs ==
  { <<<<"t">>>>,
    <<<<"@a">>, <<"@b">>>>, <<<<"@b">>, <<"@a">>>>,
    <<<<"slide">>, <<"t">>>> }

Configs ==
  [liveUpdate : BOOLEAN, singlePreview : {FALSE},
   closePreviewAutomatically : {FALSE}, scrollSync : {TRUE},
   imageFolderPath : {<<"/", "i">>}]

Init ==
  /\ HTML_FILES_MAP = [p \in Paths |-> NoFile]
  /\ MARKDOWN_ENGINES_MAP = [p \in Paths |-> 0]
  /\ engines = <<>>
  /\ tempFiles = [p \in Paths |-> 0]
  /\ alive = [e \in Editors |-> e = 1]
  /\ text = [e \in Editors |-> <<<<"t">>>>]
  /\ editor = [s \in Sessions |-> 0]
  /\ engine = [s \in Sessions |-> 0]
  /\ JSAndCssFiles = [s \in Sessions |-> UndefinedFiles]
  /\ disposables = [s \in Sessions |-> NullDisposables]
  /\ destroyed = [s \in Sessions |-> s # 1]
  /\ rendered = [s \in Sessions |-> FALSE]
  /\ webviewURL = [s \in Sessions |-> NoFile]
  /\ loading = [s \in Sessions |-> s = 1]
  /\ Constructed
  /\ AtTop
  /\ config \in Configs
  /\ tasks = <<>>
  /\ Quiet
  /\ last = NoStep

(* A step is taken only while the promises in flight fit the bound *)
Fits(st) == Len(st.tasks) <= MaxTasks

Taken(i) == [Cur EXCEPT !.tasks = RemoveAt(@, i)]

(* The host binds a session to an editor (bindEditor is public) *)
BindEditor(s, e) ==
  /\ ~destroyed[s]
  /\ alive[e]
  /\ LET st == bindEditor(Cur, s, e)
     IN Fits(st) /\ Commit(st, NoStep)

(* atom.workspace.open resolves: bindEditor's then, line 152 *)
OpenResolved(i) ==
  /\ tasks[i].kind = "open"
  /\ LET st == initEvents(Taken(i), tasks[i].s)
     IN Fits(st) /\ Commit(st, NoStep)

(* tempOpen resolves: loadPreview continues at line 205 *)
TempOpenResolved(i) ==
  /\ tasks[i].kind = "tempOpen"
  /\ LET t == tasks[i]
         htmlFilePath == <<t.editorFilePath, tempFiles[t.editorFilePath] + 1>>
         st == [Taken(i) EXCEPT
                  !.tempFiles[t.editorFilePath] = @ + 1,
                  !.HTML_FILES_MAP[t.editorFilePath] = htmlFilePath]
     IN Commit(generateHTMLTemplateForPreview(st, t.s, t.editorFilePath,
                                              htmlFilePath, t.thenInit),
               [op |-> "tempOpenResolved", s |-> t.s, t |-> [kind |-> t.kind],
                before |-> <<>>, first |-> FALSE])

(* generateHTMLTemplateForPreview and then writeFile resolve (lines        *)
(* 210-220: between the two awaits the code touches nothing but its own    *)
(* locals, so they are one step): the webview loads the file (lines        *)
(* 223-227), and an awaiting initEvents goes on to initEditorEvents (lines *)
(* 185-186).                                                               *)
TemplateWritten(i) ==
  /\ tasks[i].kind = "generateHTML"
  /\ LET t == tasks[i]
         r == parseMD(t.inputString)
         st == [Taken(i) EXCEPT
                  !.engines[t.engine].isPreviewInPresentationMode =
                     r.isPresentationMode,
                  !.webviewURL[t.s] = t.htmlFilePath,
                  !.loading[t.s] = TRUE]
     IN Commit(IF t.thenInit THEN initEditorEvents(st, t.s) ELSE st,
               [op |-> "templateWritten", s |-> t.s,
                t |-> [kind |-> t.kind, thenInit |-> t.thenInit],
                before |-> <<>>, first |-> FALSE])

(* did-stop-loading of the webview *)
WebviewStopLoading(s) ==
  /\ loading[s]
  /\ ~destroyed[s]
  /\ LET st == webviewStopLoading([Cur EXCEPT !.loading[s] = FALSE], s)
     IN Fits(st) /\ Commit(st, [op |-> "webviewStopLoading", s |-> s, t |-> NoTask,
                                before |-> <<>>, first |-> FALSE])

(* A parseMD issued before t on t's session and still in flight is         *)
(* superseded once t's result has been applied.                            *)
MarkStale(ts, i) ==
  [j \in 1..Len(ts) |->
     IF j < i /\ ts[j].kind = "parseMD" /\ ts[j].s = ts[i].s
     THEN [ts[j] EXCEPT !.stale = TRUE]
     ELSE ts[j]]

(* parseMD resolves: the callback of lines 458-473 *)
ParseMDResolved(i) ==
  /\ tasks[i].kind = "parseMD"
  /\ LET t == tasks[i]
         r == parseMD(t.inputString)
         st == [Cur EXCEPT
                  !.tasks = RemoveAt(MarkStale(tasks, i), i),
                  !.engines[t.engine].isPreviewInPresentationMode =
                     r.isPresentationMode]
         st2 == renderDecision(st, t.s, r)
     IN Fits(st2) /\ Commit([st2 EXCEPT !.rendered[t.s] = TRUE],
                             [op |-> "parseMDResolved", s |-> t.s, t |-> t,
                              before |-> JSAndCssFiles[t.s],
                              first |-> ~rendered[t.s]])

(* A promise of the engine or the file system rejects: no handler is       *)
(* attached to it anywhere on the chain (lines 152, 184, 448, 457-473).    *)
Rejected(i) ==
  /\ tasks[i].kind \in {"tempOpen", "generateHTML", "parseMD"}
  /\ Commit(Throw(Taken(i), "UnhandledRejection"),
            [op |-> "rejected", s |-> tasks[i].s, t |-> [kind |-> tasks[i].kind],
             before |-> <<>>, first |-> FALSE])

(* The user edits the text of an editor *)
EditText(e, txt) ==
  /\ alive[e]
  /\ text[e] # txt
  /\ Commit([Cur EXCEPT !.text[e] = txt], NoStep)

(* Events of an editor with at least one subscription *)
EditorEvent(e, event) ==
  /\ alive[e]
  /\ Subscribers(disposables, e, 1) # <<>>
  /\ LET st0 == IF event = "did-destroy" THEN [Cur EXCEPT !.alive[e] = FALSE] ELSE Cur
         st == EmitAll(st0, Subscribers(disposables, e, 1), event)
     IN Fits(st) /\ Commit(st, NoStep)

(* An editor nobody is subscribed to is closed *)
EditorClosed(e) ==
  /\ alive[e]
  /\ Subscribers(disposables, e, 1) = <<>>
  /\ Commit([Cur EXCEPT !.alive[e] = FALSE], NoStep)

(* The refresh request of the rendering surface (line 261) *)
RefreshPreview(s) ==
  /\ ~destroyed[s]
  /\ LET st == refreshPreview(Cur, s)
     IN Fits(st) /\ Commit(st, NoStep)

(* The preview is closed *)
Destroy(s) ==
  /\ ~destroyed[s]
  /\ Commit(destroy(Cur, s), NoStep)

Next ==
  \/ \E s \in Sessions, e \in Editors : BindEditor(s, e)
  \/ \E i \in 1..Len(tasks) : OpenResolved(i)
  \/ \E i \in 1..Len(tasks) : TempOpenResolved(i)
  \/ \E i \in 1..Len(tasks) : TemplateWritten(i)
  \/ \E i \in 1..Len(tasks) : ParseMDResolved(i)
  \/ \E i \in 1..Len(tasks) : Rejected(i)
  \/ \E s \in Sessions : WebviewStopLoading(s)
  \/ \E e \in Editors, txt \in SessionDocs : EditText(e, txt)
  \/ \E e \in Editors, ev \in {"did-destroy", "did-stop-changing", "did-save"} :
       EditorEvent(e, ev)
  \/ \E e \in Editors : EditorClosed(e)
  \/ \E s \in Sessions : RefreshPreview(s)
  \/ \E s \in Sessions : Destroy(s)

Spec == Init /\ [][Next]_vars

----------------------------------------------------------------------------
(* The specification of the caches: every session is open, and the steps   *)
(* are those that bind, rebind, close a document and destroy a session,    *)
(* with the promises these start.                                          *)

CacheConfigs ==
  [liveUpdate : {TRUE}, singlePreview : {FALSE},
   closePreviewAutomatically : BOOLEAN, scrollSync : {TRUE},
   imageFolderPath : {<<"/", "i">>}]

InitCache ==
  /\ HTML_FILES_MAP = [p \in Paths |-> NoFile]
  /\ MARKDOWN_ENGINES_MAP = [p \in Paths |-> 0]
  /\ engines = <<>>
  /\ tempFiles = [p \in Paths |-> 0]
  /\ alive = [e \in Editors |-> TRUE]
  /\ text = [e \in Editors |-> <<<<"t">>>>]
  /\ editor = [s \in Sessions |-> 0]
  /\ engine = [s \in Sessions |-> 0]
  /\ JSAndCssFiles = [s \in Sessions |-> UndefinedFiles]
  /\ disposables = [s \in Sessions |-> NullDisposables]
  /\ destroyed = [s \in Sessions |-> FALSE]
  /\ rendered = [s \in Sessions |-> FALSE]
  /\ webviewURL = [s \in Sessions |-> NoFile]
  /\ loading = [s \in Sessions |-> TRUE]
  /\ Constructed
  /\ AtTop
  /\ config \in CacheConfigs
  /\ tasks = <<>>
  /\ Quiet
  /\ last = NoStep

NextCache ==
  \/ \E s \in Sessions, e \in Editors : BindEditor(s, e)
  \/ \E i \in 1..Len(tasks) : OpenResolved(i)
  \/ \E i \in 1..Len(tasks) : TempOpenResolved(i)
  \/ \E i \in 1..Len(tasks) : TemplateWritten(i)
  \/ \E e \in Editors : EditorEvent(e, "did-destroy")
  \/ \E e \in Editors : EditorClosed(e)
  \/ \E s \in Sessions : Destroy(s)

SpecCache == InitCache /\ [][NextCache]_vars

----------------------------------------------------------------------------
(* The specification of the messages: one session, bound to editor 1 and   *)
(* initialised on it, its first load just written (the state the session   *)
(* specification reaches by BindEditor, OpenResolved, TempOpenResolved and *)
(* TemplateWritten), and the messages of its webview with the promises     *)
(* their handlers start.                                                   *)

MaxUids == 1
MaxAtoms == 15
MaxTextTasks == 1

TextDocs ==
  { << <<"- ", "[ ]", "t">> >>,
    << <<"t">>, <<"- ", "[x]", "t">>, <<>> >> }

ImagePaths == { <<"/", "a", ".", "p">> }
ImageUrls == { <<"h">>, <<"$", "&">> }
Hrefs == { <<"file://", "d", "%20", " ", "#", "x">>, <<"d", ".pdf">>, <<"http://", "d">> }

Envelope(command, args) == [command |-> command, args |-> args]

Envelopes ==
  {Envelope(c, <<1>>) :
     c \in {"webviewFinishLoading", "refreshPreview", "openInBrowser",
            "phantomjsExport", "princeExport", "pandocExport", "markdownExport",
            "runAllCodeChunks", "setZoomLevel",
            "futureCommand", "toString", "constructor", "__proto__"}}
  \cup {Envelope("revealLine", <<1, row>>) : row \in {-1, 0}}
  \cup {Envelope("insertImageUrl", <<1, <<"h">>>>)}
  \cup {Envelope("pasteImageFile", <<1, f>>) : f \in ImagePaths}
  \cup {Envelope("uploadImageFile", <<1, f>>) : f \in ImagePaths}
  \cup {Envelope("uploadImageFile", <<1, f, "sm.ms">>) : f \in ImagePaths}
  \cup {Envelope("htmlExport", <<1, TRUE>>), Envelope("eBookExport", <<1, "epub">>),
        Envelope("phantomjsExport", <<1, "png">>),
        Envelope("cacheCodeChunkResult", <<1, "c1", "r">>),
        Envelope("runCodeChunk", <<1, "c1">>),
        Envelope("futureCommand", <<1, 0>>)}
  \cup {Envelope("clickTagA", <<1, href>>) : href \in Hrefs}
  \cup {Envelope("clickTaskListCheckbox", <<1, 0>>)}
  \cup {Envelope("setZoomLevel", <<1, z>>) : z \in {0, 2}}

(* The messages whose handlers change the text *)
TextCommands ==
  {"insertImageUrl", "pasteImageFile", "uploadImageFile", "clickTaskListCheckbox"}

(* The messages of the text specification: checkboxes and uploads *)
TextEnvelopes ==
  {env \in Envelopes : env.command = "uploadImageFile"}
  \cup {Envelope("clickTaskListCheckbox", <<1, n>>) : n \in 0..2}

(* The cursors a message is received with: they matter to the handlers     *)
(* that insert at the cursor only.                                         *)
Cursors(s, command) ==
  IF editor[s] = 0 \/ command \notin TextCommands \ {"clickTaskListCheckbox"}
  THEN {<<0, 0>>}
  ELSE Positions(text[editor[s]])

TextConfigs ==
  [liveUpdate : {FALSE}, singlePreview : {FALSE},
   closePreviewAutomatically : {FALSE}, scrollSync : {TRUE},
   imageFolderPath : {<<"/", "i">>}]

InitText ==
  /\ HTML_FILES_MAP = [p \in Paths |-> IF p = 1 THEN <<1, 1>> ELSE NoFile]
  /\ MARKDOWN_ENGINES_MAP = [p \in Paths |-> IF p = 1 THEN 1 ELSE 0]
  /\ engines = <<[filePath |-> 1, isPreviewInPresentationMode |-> FALSE]>>
  /\ tempFiles = [p \in Paths |-> IF p = 1 THEN 1 ELSE 0]
  /\ alive = [e \in Editors |-> e = 1]
  /\ \E doc \in TextDocs : text = [e \in Editors |-> doc]
  /\ editor = [s \in Sessions |-> IF s = 1 THEN 1 ELSE 0]
  /\ engine = [s \in Sessions |-> IF s = 1 THEN 1 ELSE 0]
  /\ JSAndCssFiles = [s \in Sessions |-> IF s = 1 THEN <<>> ELSE UndefinedFiles]
  /\ disposables = [s \in Sessions |-> IF s = 1 THEN <<1>> ELSE NullDisposables]
  /\ destroyed = [s \in Sessions |-> s # 1]
  /\ rendered = [s \in Sessions |-> FALSE]
  /\ webviewURL = [s \in Sessions |-> IF s = 1 THEN <<1, 1>> ELSE NoFile]
  /\ loading = [s \in Sessions |-> s = 1]
  /\ Constructed
  /\ AtTop
  /\ config \in TextConfigs
  /\ tasks = <<>>
  /\ Quiet
  /\ last = NoStep

Atoms(lines) == Len(Flatten(lines))

FitsText(st) ==
  /\ Len(st.tasks) <= MaxTextTasks
  /\ st.uids <= MaxUids
  /\ \A e \in Editors : Atoms(st.text[e]) <= MaxAtoms

(* The text of the editor a session is bound to *)
TextOf(s) == IF editor[s] = 0 THEN <<>> ELSE text[editor[s]]

IsToggle(step, s, n) ==
  /\ step.op = "receive"
  /\ step.command = "clickTaskListCheckbox"
  /\ step.s = s
  /\ step.args[2] = n

(* The time the timer a session has pending, if any, has left to run when  *)
(* it fires                                                                *)
PendingDuration(s) ==
  IF \E i \in 1..Len(timers) : timers[i].s = s
  THEN timers[CHOOSE i \in 1..Len(timers) : timers[i].s = s].duration
  ELSE -1

(* ipc-message of the webview, with the cursor where the user has left it. *)
(* The step remembers the text it found, the timer it found pending and,   *)
(* when it is the second of two consecutive checkbox messages for one      *)
(* line, the text the first found.                                         *)
ReceiveMessage(s, env, cursor) ==
  /\ ~destroyed[s]
  /\ LET st == webviewReceiveMessage(Cur, s, env.command, env.args, cursor)
         second == /\ env.command = "clickTaskListCheckbox"
                   /\ IsToggle(last, s, env.args[2])
     IN /\ FitsText(st)
        /\ Commit(st, [op |-> "receive", s |-> s, command |-> env.command,
                       args |-> env.args, before |-> TextOf(s),
                       bound |-> editor[s] # 0,
                       interrupted |-> PendingDuration(s),
                       second |-> second,
                       orig |-> IF second THEN last.before ELSE <<>>])

(* uploadImage resolves with a url: the then of lines 786-788, whose       *)
(* exception the catch of lines 789-791 reports.                           *)
UploadResolved(i, url) ==
  /\ tasks[i].kind = "uploadImage"
  /\ LET t == tasks[i]
         x == setUploadedImageURL(Taken(i), t.s, t.imageFileName, url, t.hint,
                                  t.bufferRow)
         st == IF x.r = "threw" THEN Notify(x.st, "error") ELSE x.st
     IN /\ FitsText(st)
        /\ Commit(st, [op |-> "uploadResolved", s |-> t.s, t |-> t, url |-> url,
                       before |-> TextOf(t.s), r |-> x.r])

(* uploadImage rejects: the catch of lines 789-791 *)
UploadRejected(i) ==
  /\ tasks[i].kind = "uploadImage"
  /\ Commit(Notify(Taken(i), "error"),
            [op |-> "uploadRejected", s |-> tasks[i].s, t |-> tasks[i],
             before |-> TextOf(tasks[i].s)])

(* fs.stat calls back *)
PasteImageStat(i, outcome, cursor) ==
  /\ tasks[i].kind = "stat"
  /\ LET st == pasteImageStat(Taken(i), tasks[i].s, tasks[i], outcome, cursor)
     IN FitsText(st) /\ Commit(st, NoStep)

(* A promise of the engine resolves: the then of lines 577, 588, 606, 624, *)
(* 635, 646, 661 and 669.                                                  *)
EngineCallResolved(i) ==
  /\ tasks[i].kind = "engineCall"
  /\ LET t == tasks[i]
         st == IF t.method \in ExportMethods THEN Notify(Taken(i), "success")
               ELSE IF t.method \in {"runCodeChunk", "runAllCodeChunks"}
               THEN renderMarkdown(Taken(i), t.s, FALSE)
               ELSE Taken(i)
     IN FitsText(st) /\ Commit(st, NoStep)

(* A promise of the engine rejects: the catch of the exports, and none for *)
(* the code chunk runners.                                                 *)
EngineCallRejected(i) ==
  /\ tasks[i].kind = "engineCall"
  /\ Commit(IF tasks[i].method \in {"runCodeChunk", "runAllCodeChunks"}
            THEN Throw(Taken(i), "UnhandledRejection")
            ELSE Notify(Taken(i), "error"), NoStep)

TextSteps ==
  \/ \E i \in 1..Len(tasks), url \in ImageUrls : UploadResolved(i, url)
  \/ \E i \in 1..Len(tasks) : UploadRejected(i)

NextText ==
  \/ \E s \in Sessions, env \in TextEnvelopes :
       \E cursor \in Cursors(s, env.command) : ReceiveMessage(s, env, cursor)
  \/ TextSteps
  \/ \E e \in Editors : EditorEvent(e, "did-destroy")

SpecText == InitText /\ [][NextText]_vars

(* The specification of the dispatch: every message, on the first text    *)
(* while it stays short, with the cursor at the start of the buffer.       *)
MaxDispatchAtoms == 10

InitDispatch ==
  /\ InitText
  /\ text[1] = << <<"- ", "[ ]", "t">> >>

ShortText == \A e \in Editors : Atoms(text[e]) <= MaxDispatchAtoms

NextDispatch ==
  \/ \E s \in Sessions, env \in Envelopes :
       ReceiveMessage(s, env, <<0, 0>>) /\ ShortText'
  \/ \E i \in 1..Len(tasks), url \in ImageUrls :
       UploadResolved(i, url) /\ ShortText'
  \/ \E i \in 1..Len(tasks) : UploadRejected(i)
  \/ \E i \in 1..Len(tasks), outcome \in {"exists", "ENOENT", "EACCES"} :
       PasteImageStat(i, outcome, <<0, 0>>) /\ ShortText'
  \/ \E i \in 1..Len(tasks) : EngineCallResolved(i)
  \/ \E i \in 1..Len(tasks) : EngineCallRejected(i)
  \/ \E i \in 1..Len(tasks) : TemplateWritten(i)
  \/ \E i \in 1..Len(tasks) : ParseMDResolved(i)

SpecDispatch == InitDispatch /\ [][NextDispatch]_vars

----------------------------------------------------------------------------
(* The specification of the scroll sync: one session, bound to editor 1    *)
(* and initialised on it, the clock, the timers of its scroll animation,   *)
(* the reveal requests of its webview and the scroll and cursor events of  *)
(* its editor.                                                             *)

MaxNow == 640
MaxRequestNow == 130

(* The texts of the editor and the screen rows a line of each takes *)
ScrollViews == { << << <<"t">> >>, 1 >>, << << <<"t">>, <<>>, <<"t">> >>, 2 >> }

ScrollEnvelopes == {Envelope("revealLine", <<1, row>>) : row \in {-1, 0, 2}}

ScrollConfigs ==
  [liveUpdate : {FALSE}, singlePreview : {FALSE},
   closePreviewAutomatically : {FALSE}, scrollSync : BOOLEAN,
   imageFolderPath : {<<"/", "i">>}]

InitScroll ==
  /\ HTML_FILES_MAP = [p \in Paths |-> IF p = 1 THEN <<1, 1>> ELSE NoFile]
  /\ MARKDOWN_ENGINES_MAP = [p \in Paths |-> IF p = 1 THEN 1 ELSE 0]
  /\ engines = <<[filePath |-> 1, isPreviewInPresentationMode |-> FALSE]>>
  /\ tempFiles = [p \in Paths |-> IF p = 1 THEN 1 ELSE 0]
  /\ alive = [e \in Editors |-> e = 1]
  /\ \E v \in ScrollViews : /\ text = [e \in Editors |-> v[1]]
                             /\ wrap = [e \in Editors |-> v[2]]
  /\ editor = [s \in Sessions |-> IF s = 1 THEN 1 ELSE 0]
  /\ engine = [s \in Sessions |-> IF s = 1 THEN 1 ELSE 0]
  /\ JSAndCssFiles = [s \in Sessions |-> IF s = 1 THEN <<>> ELSE UndefinedFiles]
  /\ disposables = [s \in Sessions |-> IF s = 1 THEN <<1>> ELSE NullDisposables]
  /\ destroyed = [s \in Sessions |-> s # 1]
  /\ rendered = [s \in Sessions |-> FALSE]
  /\ webviewURL = [s \in Sessions |-> IF s = 1 THEN <<1, 1>> ELSE NoFile]
  /\ loading = [s \in Sessions |-> FALSE]
  /\ Constructed
  /\ timers = <<>>
  /\ scrollTop = [e \in Editors |-> 0]
  /\ config \in ScrollConfigs
  /\ tasks = <<>>
  /\ Quiet
  /\ last = NoStep

(* The clock advances: by the delay of a timer while one is set, or by the *)
(* time the scroll events stay suppressed, and only as far as leaves the   *)
(* animation in progress the time to finish before MaxNow. A timer that is *)
(* due fires before the clock advances again, so it fires when it is due   *)
(* or late by the longer advance.                                          *)
Tick(d) ==
  /\ now + d <= MaxNow
  /\ d = delay => timers # <<>>
  /\ \A i \in 1..Len(timers) :
       /\ timers[i].due > now
       /\ Max(now + d, timers[i].due) + timers[i].duration <= MaxNow
  /\ Commit([Cur EXCEPT !.now = now + d], [op |-> "tick"])

(* A timer fires: the callback of lines 495-514 *)
TimerFires(i, exact) ==
  /\ timers[i].due <= now
  /\ Commit(scrollStep([Cur EXCEPT !.timers = RemoveAt(@, i)], timers[i], exact),
            [op |-> "timer", s |-> timers[i].s, t |-> timers[i],
             from |-> scrollTop[timers[i].e], exact |-> exact])

(* The scroll tops the user scrolls an editor to: every second line of its *)
(* range                                                                   *)
ScrollTops(e) ==
  {2 * r * LineHeightInPixels :
     r \in 0..(getMaxScrollTop(Cur, e) \div (2 * LineHeightInPixels))}

(* The user scrolls an editor *)
UserScroll(e, top) ==
  /\ alive[e]
  /\ top # scrollTop[e]
  /\ Commit(setScrollTop(Cur, e, top, 1), [op |-> "scroll", e |-> e])

(* The screen rows the user moves the cursor to: the first and the last *)
CursorRows(e) == {0, getLastScreenRow(Cur, e)}

(* The user moves the cursor of an editor to a screen row *)
CursorMoved(e, row) ==
  /\ alive[e]
  /\ Commit(EmitView(Cur, Subscribers(disposables, e, 1),
                     [name |-> "did-change-cursor-position", screenRow |-> row,
                      bufferRow |-> bufferRowForScreenRow(Cur, e, row)]),
            [op |-> "cursor", e |-> e])

(* The user runs the command markdown-preview-enhanced:sync-preview *)
SyncPreviewCommand(e) ==
  /\ alive[e]
  /\ Subscribers(disposables, e, 1) # <<>>
  /\ Commit(EmitView(Cur, Subscribers(disposables, e, 1), [name |-> "sync-preview"]),
            [op |-> "sync", e |-> e])

NextScroll ==
  \/ \E s \in Sessions, env \in ScrollEnvelopes :
       /\ now <= MaxRequestNow
       /\ ReceiveMessage(s, env, <<0, 0>>)
  \/ \E d \in {delay, ScrollSuppression} : Tick(d)
  \/ \E i \in 1..Len(timers), exact \in BOOLEAN : TimerFires(i, exact)
  \/ \E e \in Editors : \E top \in ScrollTops(e) : UserScroll(e, top)
  \/ \E e \in Editors : \E row \in CursorRows(e) : CursorMoved(e, row)
  \/ \E e \in Editors : SyncPreviewCommand(e)
  \/ \E e \in Editors : EditorEvent(e, "did-destroy")

SpecScroll == InitScroll /\ [][NextScroll]_vars

(* The specification of the animation alone, with its scheduling: the     *)
(* wrapped text, the reveal requests, the clock and the timers; the clock  *)
(* does not stop while it may advance, and a timer that is due fires.      *)
InitAnimation ==
  /\ InitScroll
  /\ wrap[1] = 2
  /\ config.scrollSync

Clock == \E d \in {delay, ScrollSuppression} : Tick(d)

Timer == \E i \in 1..Len(timers), exact \in BOOLEAN : TimerFires(i, exact)

NextAnimation ==
  \/ \E s \in Sessions, env \in ScrollEnvelopes :
       /\ now <= MaxRequestNow
       /\ ReceiveMessage(s, env, <<0, 0>>)
  \/ Clock
  \/ Timer

SpecAnimation ==
  /\ InitAnimation
  /\ [][NextAnimation]_vars
  /\ WF_vars(Clock)
  /\ WF_vars(Timer)

----------------------------------------------------------------------------
(* The specification of the upload window: one session, bound to editor 1  *)
(* and initialised on it, one upload, and the lines the user inserts and   *)
(* deletes in the text while the upload is in flight.                      *)

MaxLines == 43

(* A text of n empty lines *)
EmptyLines(n) == [i \in 1..n |-> <<>>]

(* A text of one line, and a text that reaches HintWindow lines beyond a   *)
(* cursor that stands HintWindow lines from its start                      *)
WindowDocs == {EmptyLines(1), EmptyLines(2 * HintWindow + 2)}

WindowEnvelopes == {Envelope("uploadImageFile", <<1, f>>) : f \in ImagePaths}

(* The cursors of the upload: the start of the first row, of the row       *)
(* HintWindow lines down and of the last row                               *)
WindowCursors(s) ==
  {pos \in Positions(TextOf(s)) :
     pos[1] \in {0, HintWindow, Len(TextOf(s)) - 1} /\ pos[2] = 0}

InitWindow ==
  /\ HTML_FILES_MAP = [p \in Paths |-> IF p = 1 THEN <<1, 1>> ELSE NoFile]
  /\ MARKDOWN_ENGINES_MAP = [p \in Paths |-> IF p = 1 THEN 1 ELSE 0]
  /\ engines = <<[filePath |-> 1, isPreviewInPresentationMode |-> FALSE]>>
  /\ tempFiles = [p \in Paths |-> IF p = 1 THEN 1 ELSE 0]
  /\ alive = [e \in Editors |-> e = 1]
  /\ \E doc \in WindowDocs : text = [e \in Editors |-> doc]
  /\ editor = [s \in Sessions |-> IF s = 1 THEN 1 ELSE 0]
  /\ engine = [s \in Sessions |-> IF s = 1 THEN 1 ELSE 0]
  /\ JSAndCssFiles = [s \in Sessions |-> IF s = 1 THEN <<>> ELSE UndefinedFiles]
  /\ disposables = [s \in Sessions |-> IF s = 1 THEN <<1>> ELSE NullDisposables]
  /\ destroyed = [s \in Sessions |-> s # 1]
  /\ rendered = [s \in Sessions |-> FALSE]
  /\ webviewURL = [s \in Sessions |-> IF s = 1 THEN <<1, 1>> ELSE NoFile]
  /\ loading = [s \in Sessions |-> FALSE]
  /\ Constructed
  /\ AtTop
  /\ config \in TextConfigs
  /\ tasks = <<>>
  /\ Quiet
  /\ last = NoStep

(* The rows at which the user edits: the first, and those with text *)
EditRows(lines) == {0} \cup {r \in 0..(Len(lines) - 1) : lines[r + 1] # <<>>}

(* The user inserts an empty line above a row *)
InsertLine(e, row) ==
  /\ alive[e]
  /\ Len(text[e]) < MaxLines
  /\ Commit([Cur EXCEPT !.text[e] =
               SubSeq(@, 1, row) \o <<<<>>>> \o SubSeq(@, row + 1, Len(@))],
            NoStep)

(* The user deletes a row; the last line of a buffer is emptied instead *)
DeleteLine(e, row) ==
  /\ alive[e]
  /\ text[e] # <<<<>>>>
  /\ Commit([Cur EXCEPT !.text[e] =
               IF Len(@) = 1 THEN <<<<>>>> ELSE RemoveAt(@, row + 1)],
            NoStep)

NextWindow ==
  \/ \E s \in Sessions, env \in WindowEnvelopes :
       \E cursor \in WindowCursors(s) : ReceiveMessage(s, env, cursor)
  \/ \E i \in 1..Len(tasks) : UploadResolved(i, <<"h">>)
  \/ \E i \in 1..Len(tasks) : UploadRejected(i)
  \/ \E e \in Editors : InsertLine(e, 0)
  \/ \E e \in Editors : \E row \in EditRows(text[e]) : DeleteLine(e, row)

SpecWindow == InitWindow /\ [][NextWindow]_vars

----------------------------------------------------------------------------
(* The specification of the reload and render cycle: one session is bound  *)
(* to editor 1, the user types the document in, and every change is        *)
(* followed by the editor's did-stop-changing or did-save. The promises    *)
(* and the load of the webview come to an end: a promise resolves unless   *)
(* it rejects, and the webview finishes every load it has started.         *)

(* The texts the document goes through as it is typed in, in order *)
SettleDocs ==
  << <<<<"t">>>>,
     <<<<"@a">>, <<"@b">>>>,
     <<<<"@b">>, <<"@a">>>>,
     <<<<"slide">>, <<"t">>>>,
     <<<<"t">>, <<"@a">>>> >>

DocIndex(txt) == CHOOSE k \in 1..Len(SettleDocs) : SettleDocs[k] = txt

InitSettle == Init /\ config.liveUpdate

(* The first bind of the session *)
FirstBind == editor[1] = 0 /\ BindEditor(1, 1)

(* The user types on: the text moves to a later one of SettleDocs, and the *)
(* editor emits the event to its subscribers (lines 365-372).              *)
Typed(k, event) ==
  /\ alive[1]
  /\ k > DocIndex(text[1])
  /\ LET st == EmitAll([Cur EXCEPT !.text[1] = SettleDocs[k]],
                       Subscribers(disposables, 1, 1), event)
     IN Fits(st) /\ Commit(st, NoStep)

Resolved ==
  \E i \in 1..Len(tasks) :
    OpenResolved(i) \/ TempOpenResolved(i) \/ TemplateWritten(i) \/ ParseMDResolved(i)

Loaded == WebviewStopLoading(1)

NextSettle ==
  \/ FirstBind
  \/ \E k \in 1..Len(SettleDocs), ev \in {"did-stop-changing", "did-save"} :
       Typed(k, ev)
  \/ Resolved
  \/ \E i \in 1..Len(tasks) : Rejected(i)
  \/ Loaded

SpecSettle ==
  InitSettle /\ [][NextSettle]_vars /\ WF_vars(Resolved) /\ WF_vars(Loaded)

----------------------------------------------------------------------------
(* Properties of the caches and of the render decision *)

OpenPending(s) == \E i \in 1..Len(tasks) : tasks[i].kind = "open" /\ tasks[i].s = s

(* C1: under every sequence of binds, rebinds, document closes and session *)
(* destroys, over all sessions, at most one engine is ever constructed for *)
(* a document identity, the engine a session holds is the cached engine of *)
(* the document it was constructed for, and a session that has            *)
(* initialised on its bound document holds the cache's engine for it.      *)
EngineOncePerDocument ==
  /\ \A d \in Paths :
       Cardinality({i \in 1..Len(engines) : engines[i].filePath = d}) <= 1
  /\ \A s \in Sessions :
       engine[s] # 0 =>
         MARKDOWN_ENGINES_MAP[engines[engine[s]].filePath] = engine[s]
  /\ \A s \in Sessions :
       (editor[s] # 0 /\ JSAndCssFiles[s] # UndefinedFiles /\ ~OpenPending(s)) =>
         /\ engine[s] # 0
         /\ engine[s] = MARKDOWN_ENGINES_MAP[getPath(editor[s])]

(* Two sessions initialised on the same document share its one engine,     *)
(* while an engine exists for every path.                                  *)
EngineSharedWitness ==
  /\ Len(engines) = NPaths
  /\ \E s1, s2 \in Sessions :
       /\ s1 # s2
       /\ editor[s1] # 0 /\ editor[s2] # 0
       /\ getPath(editor[s1]) = getPath(editor[s2])
       /\ ~OpenPending(s1) /\ ~OpenPending(s2)
       /\ engine[s1] # 0 /\ engine[s1] = engine[s2]

(* C2: at most one temp file is ever allocated per document identity, and  *)
(* every loadPreview in flight for a document, and every webview showing   *)
(* it, uses the path the cache holds for that document.                    *)
OneTempFilePerDocument ==
  /\ \A d \in Paths : tempFiles[d] <= 1
  /\ \A i \in 1..Len(tasks) :
       tasks[i].kind = "generateHTML" =>
         tasks[i].htmlFilePath = HTML_FILES_MAP[tasks[i].editorFilePath]
  /\ \A s \in Sessions :
       webviewURL[s] # NoFile => webviewURL[s] = HTML_FILES_MAP[webviewURL[s][1]]

Patches(msgs, s) ==
  SelectSeq(msgs, LAMBDA m : m.command = "updateHTML" /\ m.to = s)

(* The number of promises the step started, given that it settled one *)
Started == Len(tasks') - (Len(tasks) - 1)

Threw(e) == \E k \in 1..Len(errs') : errs'[k] = e

(* C3: the result of a render request that a later request of the same     *)
(* session has overtaken is discarded: no incremental patch is sent, the   *)
(* stored dependency set is not overwritten and no full reload starts.     *)
StaleRenderDiscarded ==
  [][(last'.op = "parseMDResolved" /\ last'.t.stale) =>
       /\ Patches(posted', last'.s) = <<>>
       /\ JSAndCssFiles' = JSAndCssFiles
       /\ Started = 0]_vars

(* C4: a completed render request chooses full reload exactly when the new *)
(* dependency set differs from the stored one or the presentation flag is  *)
(* set; it then stores the new set and starts the reload, and otherwise    *)
(* sends exactly one incremental patch and leaves the stored set alone.    *)
RenderDecisionRule ==
  [][last'.op = "parseMDResolved" =>
       LET s == last'.s
           r == parseMD(last'.t.inputString)
       IN IF r.JSAndCssFiles # JSAndCssFiles[s] \/ r.isPresentationMode
          THEN /\ JSAndCssFiles'[s] = r.JSAndCssFiles
               /\ Started = 1
               /\ tasks'[Len(tasks')].kind \in {"tempOpen", "generateHTML"}
               /\ Patches(posted', s) = <<>>
          ELSE /\ JSAndCssFiles'[s] = JSAndCssFiles[s]
               /\ Started = 0
               /\ Len(Patches(posted', s)) = 1
               /\ Patches(posted', s)[1].html = r.html]_vars

IsPermutation(x, y) ==
  /\ Len(x) = Len(y)
  /\ \A a \in {x[i] : i \in 1..Len(x)} \cup {y[i] : i \in 1..Len(y)} :
       Cardinality({i \in 1..Len(x) : x[i] = a}) =
       Cardinality({i \in 1..Len(y) : y[i] = a})

FirstRenderReloads ==
  [][(/\ last'.op = "parseMDResolved"
      /\ last'.first
      /\ parseMD(last'.t.inputString).JSAndCssFiles = <<>>
      /\ ~parseMD(last'.t.inputString).isPresentationMode) =>
       Started = 1]_vars

(* C6 as amended: that first render decides incremental patch: initEvents  *)
(* has reset the stored set to empty and loaded the preview itself, so no  *)
(* reload starts and the stored set stays empty; the patch branch sends    *)
(* one patch or, the editor gone, throws.                                  *)
FirstRenderPatches ==
  [][(/\ last'.op = "parseMDResolved"
      /\ last'.first
      /\ parseMD(last'.t.inputString).JSAndCssFiles = <<>>
      /\ ~parseMD(last'.t.inputString).isPresentationMode) =>
       /\ Started = 0
       /\ JSAndCssFiles[last'.s] = <<>>
       /\ JSAndCssFiles'[last'.s] = <<>>
       /\ IF editor[last'.s] # 0
          THEN Len(Patches(posted', last'.s)) = 1 /\ errs' = <<>>
          ELSE /\ Patches(posted', last'.s) = <<>>
               /\ Threw("TypeError: renderMarkdown callback reads null")]_vars

(* The first render of a session, of a text without imports or slides, has *)
(* just sent its patch.                                                    *)
FirstRenderWitness ==
  /\ last.op = "parseMDResolved"
  /\ last.first
  /\ parseMD(last.t.inputString).JSAndCssFiles = <<>>
  /\ ~parseMD(last.t.inputString).isPresentationMode
  /\ Len(Patches(posted, last.s)) = 1

(* C7: when the engine's render call rejects, an error notification is     *)
(* raised, no patch is sent, no reload starts and the stored dependency    *)
(* set is unchanged.                                                       *)
RenderRejectionNotified ==
  [][(last'.op = "rejected" /\ last'.t.kind = "parseMD") =>
       /\ \E k \in 1..Len(notices') : notices'[k].type = "error"
       /\ Patches(posted', last'.s) = <<>>
       /\ Started = 0
       /\ JSAndCssFiles' = JSAndCssFiles]_vars

(* The promises a render request or a reload of the preview waits for *)
Completions == {"parseMDResolved", "tempOpenResolved", "templateWritten"}

(* C21: when the document has been closed or the session destroyed while a *)
(* render request or a reload is in flight, the completion of that request *)
(* reads nothing from the unbound document reference and raises no error,  *)
(* and it sends no patch.                                                  *)
UnboundCompletionSafe ==
  [][(last'.op \in Completions /\ editor[last'.s] = 0) =>
       /\ errs' = <<>>
       /\ Patches(posted', last'.s) = <<>>]_vars

(* While the session is bound, and subscribed if its first load is the one *)
(* completing, a completion raises no error.                               *)
BoundCompletionSafe ==
  [][(/\ last'.op \in Completions
      /\ editor[last'.s] # 0
      /\ disposables[last'.s] # NullDisposables) =>
       errs' = <<>>]_vars

(* A bind of session s is still on its way to initEditorEvents *)
LoadPending(s) ==
  \E i \in 1..Len(tasks) :
    /\ tasks[i].s = s
    /\ \/ tasks[i].kind = "open"
       \/ tasks[i].kind \in {"tempOpen", "generateHTML"} /\ tasks[i].thenInit

(* The session has been bound, its binds have run to their end, and it has *)
(* not been unbound since.                                                 *)
Settled(s) ==
  /\ editor[s] # 0
  /\ disposables[s] # NullDisposables
  /\ ~LoadPending(s)

(* The render requests session s starts when editor e emits the event: one *)
(* startParsingMarkdown message goes out for each (lines 197 and 455).     *)
RenderRequests(s, e, event) ==
  Len(SelectSeq(EmitAll(Cur, Subscribers(disposables, e, 1), event).posted,
                LAMBDA m : m.to = s /\ m.command = "startParsingMarkdown"))

(* C22: once the pending loads of a bound session have completed, it holds *)
(* exactly one set of document subscriptions, attached to the document it  *)
(* is bound to: a save of that document starts exactly one render request, *)
(* and a save of any other document starts none.                           *)
OneSubscriptionSet ==
  \A s \in Sessions :
    Settled(s) =>
      /\ disposables[s] = <<editor[s]>>
      /\ RenderRequests(s, editor[s], "did-save") = 1
      /\ \A e \in Editors \ {editor[s]} : RenderRequests(s, e, "did-save") = 0

(* The subscriptions a session holds are attached to the document it is    *)
(* bound to, however many sets of them there are.                          *)
SubscribedToBoundDocument ==
  \A s \in Sessions :
    disposables[s] # NullDisposables =>
      /\ \A k \in 1..Len(disposables[s]) : disposables[s][k] = editor[s]
      /\ \A e \in Editors \ {editor[s]} : RenderRequests(s, e, "did-save") = 0

(* A session bound twice before its first load completed has subscribed    *)
(* twice: one save starts two render requests.                             *)
DoubleSubscriptionWitness ==
  \E s \in Sessions :
    /\ Settled(s)
    /\ Len(disposables[s]) = 2
    /\ RenderRequests(s, editor[s], "did-save") = 2

(* No promise of the session is in flight and its webview is not loading *)
Idle(s) == ~loading[s] /\ \A i \in 1..Len(tasks) : tasks[i].s # s

(* The decision of a completed render request *)
DecidesReload ==
  /\ last'.op = "parseMDResolved"
  /\ \/ parseMD(last'.t.inputString).JSAndCssFiles # JSAndCssFiles[last'.s]
     \/ parseMD(last'.t.inputString).isPresentationMode

DecidesPatch == last'.op = "parseMDResolved" /\ ~DecidesReload

(* The steps of the cycle. A render that decides full reload stores the    *)
(* dependency set of the text it rendered. The load completion of a bound  *)
(* session outside presentation mode requests a render of the document as  *)
(* it is then, and in presentation mode it requests nothing. A render of a *)
(* text whose dependency set is the stored one, without the presentation   *)
(* flag, starts no reload, and sends one patch while the session is bound. *)
SettleSteps ==
  /\ DecidesReload =>
       JSAndCssFiles'[last'.s] = parseMD(last'.t.inputString).JSAndCssFiles
  /\ (last'.op = "webviewStopLoading" /\ engine[last'.s] # 0) =>
       IF engines[engine[last'.s]].isPreviewInPresentationMode \/ editor[last'.s] = 0
       THEN tasks' = tasks /\ posted' = <<>>
       ELSE /\ tasks' = Append(tasks, tasks'[Len(tasks')])
            /\ tasks'[Len(tasks')].kind = "parseMD"
            /\ tasks'[Len(tasks')].inputString = text[editor[last'.s]]
  /\ DecidesPatch =>
       /\ Started = 0
       /\ JSAndCssFiles' = JSAndCssFiles
       /\ editor[last'.s] # 0 => Len(Patches(posted', last'.s)) = 1

(* C23: the reload and render cycle settles. The steps are those of        *)
(* SettleSteps, and once the user has stopped typing the session performs  *)
(* finitely many reloads and renders and is idle from then on.             *)
CycleSettles ==
  /\ [][SettleSteps]_vars
  /\ <>[]Idle(1)
  /\ \A s \in Sessions : ~Idle(s) ~> Idle(s)

(* A render decided full reload and stored the reordered dependency set,   *)
(* the webview loaded, and the render its load completion requested has    *)
(* just sent its patch: the session is idle.                               *)
SettledAfterReloadWitness ==
  /\ last.op = "parseMDResolved"
  /\ last.s = 1
  /\ ~last.first
  /\ last.before = <<"@b", "@a">>
  /\ JSAndCssFiles[1] = <<"@b", "@a">>
  /\ text[1] = SettleDocs[3]
  /\ Len(Patches(posted, 1)) = 1
  /\ Idle(1)

(* The load of a presentation has completed and has requested no render *)
SettledPresentationWitness ==
  /\ last.op = "webviewStopLoading"
  /\ engine[1] # 0
  /\ engines[engine[1]].isPreviewInPresentationMode
  /\ JSAndCssFiles[1] # UndefinedFiles
  /\ rendered[1]
  /\ Idle(1)

----------------------------------------------------------------------------
(* Properties of the messages of the webview *)

(* The state of the sessions, the editors and the promises in flight *)
State ==
  <<HTML_FILES_MAP, MARKDOWN_ENGINES_MAP, engines, tempFiles, alive, text,
    editor, engine, JSAndCssFiles, disposables, destroyed, rendered, webviewURL,
    loading, zoomLevel, editorScrollDelay, scrollTimeout, now, uids, config,
    tasks>>

NoHandler(cs) == \A k \in 1..Len(cs) : cs[k].kind # "handler"

(* C8: a message whose command is not a registered name invokes no handler *)
(* and leaves the state of the sessions, the text of the editors and the   *)
(* messages to the webview unchanged (a name the table does not even       *)
(* inherit calls nothing and raises nothing); a registered name invokes    *)
(* its own handler, once, with the arguments of the message, and no other. *)
DispatchRule ==
  [][last'.op = "receive" =>
       IF last'.command \in RegisteredCommands
       THEN /\ calls' # <<>>
            /\ calls'[1] = [kind |-> "handler", name |-> last'.command,
                            args |-> last'.args]
            /\ NoHandler(Tail(calls'))
       ELSE /\ NoHandler(calls')
            /\ State' = State
            /\ posted' = <<>>
            /\ last'.command \notin InheritedNames =>
                 (calls' = <<>> /\ errs' = <<>> /\ notices' = <<>>)]_vars

(* A command of a later version has just been received by a session with   *)
(* a promise in flight and a zoom level set.                               *)
UnknownCommandWitness ==
  /\ last.op = "receive"
  /\ last.command = "futureCommand"
  /\ tasks # <<>>
  /\ zoomLevel[last.s] = 2
  /\ calls = <<>>

(* A line of a task list: it holds a checkbox *)
IsTaskLine(line) == \E k \in 1..Len(line) : line[k] \in {"[ ]", "[x]"}

(* The line with its checkbox flipped *)
Flipped(line) ==
  LET k == CHOOSE i \in 1..Len(line) :
             /\ line[i] \in {"[ ]", "[x]"}
             /\ \A j \in 1..(i - 1) : line[j] \notin {"[ ]", "[x]"}
  IN [line EXCEPT ![k] = IF line[k] = "[ ]" THEN "[x]" ELSE "[ ]"]

(* C9: a checkbox message for line n of a bound session, n a task list     *)
(* line, flips the checkbox of that line and leaves the other lines and    *)
(* the number of lines as they were, and the second of two consecutive     *)
(* ones restores the text the first one found - also when n is the last    *)
(* line.                                                                   *)
CheckboxRoundTrip ==
  (/\ last.op = "receive"
   /\ last.command = "clickTaskListCheckbox"
   /\ last.bound
   /\ last.args[2] < Len(last.before)
   /\ IsTaskLine(last.before[last.args[2] + 1])) =>
     LET n == last.args[2]
         cur == text[editor[last.s]]
     IN /\ Len(cur) = Len(last.before)
        /\ \A k \in 1..Len(cur) :
             cur[k] = IF k = n + 1 THEN Flipped(last.before[k]) ELSE last.before[k]
        /\ last.second => cur = last.orig

(* C10: when the text at the resolution of an upload is the text the       *)
(* placeholder was inserted into with the placeholder at the cursor (no    *)
(* edit in between), the text after it is that text with the image         *)
(* reference at the cursor: the placeholder and nothing else is replaced.  *)
UploadRoundTrip ==
  (/\ last.op = "uploadResolved"
   /\ editor[last.s] # 0
   /\ last.before = insertText(last.t.orig, last.t.cursor, last.t.hint)) =>
     text[editor[last.s]] =
       insertText(last.t.orig, last.t.cursor,
                  ImageRef(last.t.imageFileName, last.url))

----------------------------------------------------------------------------
(* Properties of a failed upload *)

(* The rows of lines on which hint occurs *)
HintRows(lines, hint) ==
  {r \in 0..(Len(lines) - 1) : indexOf(lines[r + 1], hint) >= 0}

(* C11: when uploadImage rejects, the step raises exactly one error        *)
(* notification, throws nothing, and leaves the text of the document as it *)
(* found it: a placeholder that was in the text is still there, on the     *)
(* same rows, and nothing has been replaced.                               *)
UploadFailureReported ==
  last.op = "uploadRejected" =>
    /\ notices = <<[type |-> "error"]>>
    /\ errs = <<>>
    /\ TextOf(last.s) = last.before
    /\ HintRows(TextOf(last.s), last.t.hint) = HintRows(last.before, last.t.hint)

UploadFailureWitness ==
  /\ last.op = "uploadRejected"
  /\ editor[last.s] # 0
  /\ HintRows(TextOf(last.s), last.t.hint) # {}

----------------------------------------------------------------------------
(* Properties of the scroll sync *)

(* The viewport messages of the step *)
ViewportMessages ==
  {i \in 1..Len(posted) : posted[i].command = "changeTextEditorSelection"}

(* A quotient that is a number between 0 and 1 *)
InUnitInterval(r) == r.den > 0 /\ 0 <= r.num /\ r.num <= r.den

(* C12: every viewport message of a cursor move carries a topRatio between *)
(* 0 and 1, whatever row the cursor moved to, and the topRatio 0 when the  *)
(* first and the last visible row are one row.                             *)
CursorRatioInUnitInterval ==
  last.op = "cursor" =>
    \A i \in ViewportMessages :
      /\ InUnitInterval(posted[i].topRatio)
      /\ getFirstVisibleScreenRow(Cur, last.e) = getLastVisibleScreenRow(Cur, last.e)
           => posted[i].topRatio.num = 0

(* The viewport messages the step posted to the webview of session s *)
ViewportMessagesTo(s) == {i \in ViewportMessages : posted[i].to = s}

(* C13: a step in which an editor scrolls (by the user or by a step of the *)
(* animation) or its cursor moves posts no viewport message to a session   *)
(* whose scroll-suppression deadline is still ahead, and none at all when  *)
(* scrollSync is off.                                                      *)
SuppressedEventsAreSilent ==
  last.op \in {"scroll", "cursor", "timer"} =>
    \A s \in Sessions :
      (now < editorScrollDelay[s] \/ ~config.scrollSync) => ViewportMessagesTo(s) = {}

(* A user scroll of the bound editor before the deadline, with scrollSync on *)
SuppressedScrollWitness ==
  /\ last.op = "scroll"
  /\ config.scrollSync
  /\ Subscribers(disposables, last.e, 1) = <<1>>
  /\ now < editorScrollDelay[1]
  /\ posted = <<>>

(* The timers of the animation of session s that are still to fire *)
PendingTimers(s) == {i \in 1..Len(timers) : timers[i].s = s}

(* The first timer of an animation that centres row 0, firing on an editor *)
(* whose scroll top is 0                                                   *)
RevealTopAtTop ==
  /\ last.op = "timer"
  /\ last.t.duration = scrollDuration
  /\ last.t.scrollTop = 0 * LineHeightInPixels - OffsetHeight \div 2
  /\ last.from = 0

(* C14: an animation that is to centre line 0 while the editor shows line  *)
(* 0 at its top ends with its first timer: no further timer is set, and    *)
(* the scroll top is still 0.                                              *)
RevealTopEndsAtOnce ==
  RevealTopAtTop => PendingTimers(last.s) = {} /\ scrollTop[last.t.e] = 0

(* The step started an animation: a reveal request for a row that is not  *)
(* negative, received by a session with an editor                          *)
AnimationRequested ==
  /\ last.op = "receive"
  /\ last.command = "revealLine"
  /\ last.bound
  /\ last.args[2] >= 0

(* C18: a session never has more than one timer pending, and the one it    *)
(* has is the one this.scrollTimeout holds; after a step that started an   *)
(* animation the one pending timer is the first timer of that animation    *)
(* (the whole duration left, due one delay from now), so that no timer of  *)
(* an animation requested earlier is left to fire, whatever time that      *)
(* animation had left.                                                     *)
SingleAnimation ==
  \A s \in Sessions :
    /\ Cardinality(PendingTimers(s)) <= 1
    /\ \A i \in PendingTimers(s) : timers[i] = scrollTimeout[s]
    /\ (AnimationRequested /\ last.s = s) =>
         /\ Cardinality(PendingTimers(s)) = 1
         /\ \A i \in PendingTimers(s) :
              timers[i].duration = scrollDuration /\ timers[i].due = now + delay

(* An animation is requested while an earlier one is half way *)
InterruptedAnimationWitness ==
  /\ AnimationRequested
  /\ last.interrupted > 0
  /\ last.interrupted < scrollDuration
  /\ Cardinality(PendingTimers(last.s)) = 1

(* The scroll top an editor takes when it is asked for top *)
Scrolled(e, top) == Max(0, Min(getMaxScrollTop(Cur, e), top))

(* The value the timer of the step has set is its target: it found the     *)
(* editor at the target, or it was the timer with one delay left, which    *)
(* adds the whole difference.                                              *)
SetTarget == last.from = last.t.scrollTop \/ last.t.duration = delay

(* C19, the steps: every timer pending has between 0 and scrollDuration    *)
(* left, in whole delays. A timer that fires with nothing left sets the    *)
(* scroll top to the target (as far as the editor scrolls) and sets no     *)
(* timer; a timer that has set the target, in numbers that came out        *)
(* exactly, sets no timer; any other sets one timer, one delay from now,   *)
(* with one delay less left: an animation is over after at most            *)
(* scrollDuration / delay + 1 timers.                                      *)
AnimationSteps ==
  /\ \A i \in 1..Len(timers) :
       /\ timers[i].duration \in 0..scrollDuration
       /\ timers[i].duration % delay = 0
  /\ last.op = "timer" =>
       LET t == last.t
           stops == t.duration <= 0 \/ (SetTarget /\ last.exact)
       IN /\ stops => /\ PendingTimers(t.s) = {}
                      /\ scrollTop[t.e] = Scrolled(t.e, t.scrollTop)
          /\ \A i \in PendingTimers(t.s) :
               timers[i] = [t EXCEPT !.duration = t.duration - delay,
                                     !.due = now + delay]
          /\ (PendingTimers(t.s) = {} /\ t.duration > 0) => SetTarget

(* C19: the steps of an animation are as above, and an animation that is   *)
(* under way comes to its end: a session with a timer pending is later     *)
(* without one.                                                            *)
AnimationTerminates ==
  /\ []AnimationSteps
  /\ \A s \in Sessions : (PendingTimers(s) # {}) ~> (PendingTimers(s) = {})

(* An animation has come to its end on its target, and another by its      *)
(* timer with nothing left                                                 *)
AnimationEndsOnTargetWitness ==
  /\ last.op = "timer"
  /\ last.t.duration = delay
  /\ last.from # last.t.scrollTop
  /\ PendingTimers(last.s) = {}
  /\ scrollTop[last.t.e] = last.t.scrollTop

AnimationEndsByDurationWitness ==
  /\ last.op = "timer"
  /\ last.t.duration = 0
  /\ PendingTimers(last.s) = {}

(* A step of an animation, and the request that starts one, leave the      *)
(* deadline of the session ScrollSuppression after the time of the step,   *)
(* and the scroll event of the step has posted no viewport message to it.  *)
AnimationStepSuppressed ==
  (last.op = "timer" \/ AnimationRequested) =>
    /\ editorScrollDelay[last.s] = now + ScrollSuppression
    /\ ViewportMessagesTo(last.s) = {}

(* No step moves the deadline of a session back *)
DeadlineExtends ==
  \A s \in Sessions : editorScrollDelay'[s] >= editorScrollDelay[s]

(* C20: from the request of an animation to its end, every timer sets the  *)
(* deadline to the time it fires + ScrollSuppression before it scrolls the *)
(* editor; the deadline never moves back, and the scroll event of every    *)
(* step of the animation finds the deadline ahead and posts no viewport    *)
(* message.                                                                *)
AnimationKeepsSuppressing ==
  /\ []AnimationStepSuppressed
  /\ [][DeadlineExtends]_vars

(* A timer of the animation has scrolled the editor of a session that      *)
(* listens to it, with scrollSync on, and nothing was posted               *)
AnimationScrollWitness ==
  /\ last.op = "timer"
  /\ scrollTop[last.t.e] # last.from
  /\ config.scrollSync
  /\ Subscribers(disposables, last.t.e, 1) = <<last.s>>
  /\ posted = <<>>

(* The rows of the view of the editor of the session message i went to *)
FirstVisible(i) == getFirstVisibleScreenRow(Cur, editor[posted[i].to])
LastVisible(i) == getLastVisibleScreenRow(Cur, editor[posted[i].to])
LastScreen(i) == getLastScreenRow(Cur, editor[posted[i].to])

(* Message i snaps to the top, snaps to the bottom, points at the middle *)
SnapsToTop(i) == posted[i].topRatio = Ratio(0, 1) /\ posted[i].line = 0

SnapsToBottom(i) ==
  /\ posted[i].topRatio = Ratio(1, 1)
  /\ posted[i].line = Len(text[editor[posted[i].to]]) - 1

PointsAtMiddle(i) ==
  /\ posted[i].topRatio = Ratio(1, 2)
  /\ posted[i].line =
       ((FirstVisible(i) + LastVisible(i)) \div 2) \div wrap[editor[posted[i].to]]

(* C17, as stated: every message of syncPreview snaps to the top when the  *)
(* first visible row is 0, snaps to the bottom when the last visible row   *)
(* is the last row of the document, and points at the middle row otherwise.*)
SnapPolicy ==
  last.op \in {"sync", "scroll"} =>
    \A i \in ViewportMessages :
      /\ FirstVisible(i) = 0 => SnapsToTop(i)
      /\ LastVisible(i) = LastScreen(i) => SnapsToBottom(i)
      /\ (FirstVisible(i) # 0 /\ LastVisible(i) # LastScreen(i)) => PointsAtMiddle(i)

(* C17, amended: the top comes first. Every message of syncPreview snaps   *)
(* to the top when the first visible row is 0, also when the last row of   *)
(* the document is visible too; snaps to the bottom when the first visible *)
(* row is not 0 and the last visible row is the last row of the document;  *)
(* and points at the middle row otherwise.                                 *)
SnapPolicyTopFirst ==
  last.op \in {"sync", "scroll"} =>
    \A i \in ViewportMessages :
      IF FirstVisible(i) = 0 THEN SnapsToTop(i)
      ELSE IF LastVisible(i) = LastScreen(i) THEN SnapsToBottom(i)
      ELSE PointsAtMiddle(i)

(* syncPreview has run on a view that shows the whole document, and on a   *)
(* wrapped view that shows neither end of it                               *)
SnapWholeDocumentWitness ==
  /\ last.op = "sync"
  /\ \E i \in ViewportMessages :
       FirstVisible(i) = 0 /\ LastVisible(i) = LastScreen(i) /\ SnapsToTop(i)

SnapMiddleWitness ==
  /\ last.op = "scroll"
  /\ \E i \in ViewportMessages :
       /\ FirstVisible(i) # 0
       /\ LastVisible(i) # LastScreen(i)
       /\ wrap[editor[posted[i].to]] = 2
       /\ PointsAtMiddle(i)

----------------------------------------------------------------------------
(* Properties of the upload window *)

(* line with its first occurrence of hint replaced by ref, as written *)
Substituted(line, hint, ref) ==
  LET k == indexOf(line, hint)
  IN slice(line, 0, k) \o ref \o slice(line, k + Len(hint), Len(line))

(* The rows of the text the upload found on which the placeholder stands,  *)
(* at most HintWindow rows from the row it was inserted on                 *)
HintRowsInWindow ==
  {j \in HintRows(last.before, last.t.hint) :
     j - last.t.bufferRow <= HintWindow /\ last.t.bufferRow - j <= HintWindow}

(* C15: when an upload resolves and the placeholder stands on a row at     *)
(* most HintWindow rows above or below the row it was inserted on,         *)
(* wherever in the text that row is, the text afterwards is the text       *)
(* before with the placeholder on that row replaced by the image           *)
(* reference.                                                              *)
UploadFoundInWindow ==
  (last.op = "uploadResolved" /\ editor[last.s] # 0) =>
    \A j \in HintRowsInWindow :
      TextOf(last.s) =
        [last.before EXCEPT ![j + 1] =
           Substituted(@, last.t.hint, ImageRef(last.t.imageFileName, last.url))]

(* C16: when an upload resolves and the placeholder stands on no row       *)
(* within HintWindow rows of the row it was inserted on, whatever the      *)
(* length of the text and that row, the text is left as it was, nothing is *)
(* thrown and no notification is raised.                                   *)
UploadMissingIsSilent ==
  (last.op = "uploadResolved" /\ HintRowsInWindow = {}) =>
    /\ TextOf(last.s) = last.before
    /\ notices = <<>>
    /\ errs = <<>>

====
